---- MODULE Spec2Model ----
(***************************************************************************)
(* A model of the session registry (SessionManager) and its restore of    *)
(* detected sessions, the socket fan-out (index.js), the media route with  *)
(* its two cache tiers, the range responder and the media lookup of        *)
(* ChatManager.                                                            *)
(*                                                                         *)
(* Identifiers (account ids, labels, keys, directory names, channel names, *)
(* message ids, Range headers) are sequences of tokens, so that the        *)
(* string operations of the code (template concatenation, split,           *)
(* startsWith, the Range regular expression) are computed on them and are  *)
(* not the identity.                                                       *)
(***************************************************************************)
EXTENDS Integers, Sequences, FiniteSets, Bags, TLC

(***************************************************************************)
(* Bounds of the model.                                                    *)
(***************************************************************************)
NumAccounts == 2        \* account ids a1..aN
NumLabels == 3          \* labels l1..lN
\* Spec: two pairs, a busy environment
NumPairs == 2           \* pairs the callers of Spec name
MaxClients == 2         \* Client objects constructed in one run
MaxEvents == 2          \* client events delivered in one run
MaxDestroys == 1        \* destroySession calls in one run
\* SpecBus: one pair and the sockets
BusClients == 2
BusEvents == 2
BusDestroys == 2
MaxSockets == 2         \* socket connections accepted in one run
\* SpecFault: one pair, the sockets, and sockets whose emit throws
FaultClients == 1
FaultEvents == 2
FaultDestroys == 1
\* SpecDetect: identifiers that hold the separator of the directory name
DetectClients == 2
DetectEvents == 1
DetectDestroys == 1
\* SpecStore: requests for media, two of them concurrent
StoreReqs == 2
TenantClients == 2
TenantDestroys == 1
TenantReqs == 2
\* SpecWs: the session ids callers name, and the createSession calls that
\* can be waiting at one time
WsNumIds == 6
WsMaxCreating == 2
\* SpecRoutes: the HTTP routes over the registry
RouteClients == 2
RouteEvents == 1
RouteDestroys == 1
\* SpecCapacity: every pair, a quiet environment
CapClients == 6
CapEvents == 1
CapDestroys == 1
CapPending == 1         \* initialize() calls of registered clients pending at once
\* SpecRange
MaxBufLen == 15         \* the longest buffer
MaxDigits == 2          \* the digits of a bound of a Range header
\* SpecMedia
MaxMediaReqs == 3       \* requests of the media route in one run
MaxTicks == 2           \* advances of the clock in one run
\* SpecRestore
RsClients == 2          \* Client objects the other callers construct in one run
RsEvents == 1           \* client events delivered in one run

(***************************************************************************)
(* Program constants.                                                      *)
(***************************************************************************)
MaxSessions == 5        \* sessionManager.js:154
GlobalLimit == 50       \* contactsManager.js:375
MaxAttempts == 5        \* contactsManager.js:390
BaseDelayMs == 400      \* contactsManager.js:391
JitterMs == 150         \* contactsManager.js:410
MAX_SESSIONS == 5        \* src/server.js:269 (the default)
TTL_MS == 600000        \* unnamed/part_002:6 (10 * 60 * 1000)

VARIABLES
  clients,      \* SessionManager.clients : key -> Client object
  states,       \* SessionManager.states  : key -> status
  qrs,          \* SessionManager.qrs     : key -> last qr
  selfIds,      \* SessionManager.selfIds : key -> own wa id
  stale,        \* the Client objects that are in no Map but still referenced by a
                \* pending call or by their own browser: a bag
  dirs,         \* the credential directories under dataPath (their names)
  listeners,    \* the listeners registered on the SessionManager, in order:
                \* one entry (the socket) per io 'connection'
  connected,    \* the sockets that are connected
  nSockets,     \* sockets accepted so far
  emitted,      \* the registry-level events the last step emitted, in order
  lastCall,     \* the last operation and what it returned or threw
  nEvents,      \* client events delivered so far
  nDestroys,    \* destroySession calls made so far
  destroyed,    \* history: the pairs whose destroySession has completed, with
                \* no initSession call for the pair since
  rangeReq,     \* sendBufferWithRange: the buffer and the Range header of the call
  rangeRes,     \* sendBufferWithRange: what was written to res
  dlReq,        \* downloadMedia: the message id of the call and where the message is
  dlPc,         \* downloadMedia: the await the call is at
  dlAt,         \* downloadMedia: its loop variables
  dlLog,        \* downloadMedia: the calls it has made on the client, in order
  dlOut,        \* downloadMedia: what it returned or threw
  memCache,     \* mediaCache: MEMORY_CACHE, message id -> { value, ts }
  disk,         \* mediaCache: the entries of .media_cache (a .bin and its .json)
  now,          \* Date.now()
  nTicks,       \* the times the clock has advanced
  mediaPending, \* media route: the requests that await the downloader
  nMediaReqs,   \* media route: requests received so far
  mediaLast,    \* media route: the request of the last step and what was written to res
  nDownloads,   \* message id -> calls of chatManager.downloadMedia by the route
  served,       \* history: message id -> what the route last served for it, and
                \* the timestamp of the entry that request left in MEMORY_CACHE
  rsPc,         \* autoRestoreAllSessions: where the call is
  rsDetected,   \* autoRestoreAllSessions: detectedSessions
  rsIdx,        \* autoRestoreAllSessions: the entry the loop is at
  rsResults,    \* autoRestoreAllSessions: results
  rsRestored,   \* autoRestoreAllSessions: restoredCount
  rsReturn,     \* autoRestoreAllSessions: what it returned
  rsLog,        \* history: for each entry the loop has passed, whether initSession
                \* was called for it and how the call ended
  broken,       \* the sockets whose emit throws
  sessions,     \* src/server.js: the keys of the sessions object
  creating,     \* src/server.js: session id -> the createSession calls that
                \* await client.initialize()
  wsLast,       \* src/server.js: the last call and how it ended
  reqBy,        \* media route: request id -> the accountId and label of its
                \* params, and whether clients held their key when it arrived
  origin        \* history: message id -> the pair of the request whose download
                \* wrote the entry the cache holds for it

sessVars == <<clients, states, qrs, selfIds, stale, dirs, lastCall, nEvents, nDestroys, destroyed>>
busVars == <<listeners, connected, nSockets, emitted>>
rangeVars == <<rangeReq, rangeRes>>
\* the variables of the functions that touch no registry
dlVars == <<dlReq, dlPc, dlAt, dlLog, dlOut>>
mediaVars == <<memCache, disk, now, nTicks, mediaPending, nMediaReqs, mediaLast, nDownloads, served>>
faultVars == <<broken>>
wsVars == <<sessions, creating, wsLast>>
tenantVars == <<reqBy, origin>>
pureVars == <<rangeVars, dlVars, mediaVars, faultVars, wsVars, tenantVars>>
restoreVars == <<rsPc, rsDetected, rsIdx, rsResults, rsRestored, rsReturn, rsLog>>
vars == <<sessVars, busVars, pureVars, restoreVars>>

(***************************************************************************)
(* JS Map and String helpers.                                              *)
(***************************************************************************)
MapHas(m, k) == k \in DOMAIN m
MapSet(m, k, v) == [x \in (DOMAIN m) \cup {k} |-> IF x = k THEN v ELSE m[x]]
MapDelete(m, k) == [x \in (DOMAIN m) \ {k} |-> m[x]]
MapGet(m, k) == IF k \in DOMAIN m THEN m[k] ELSE "undefined"
EmptyMap == <<>>
\* !!v of a string or undefined
Truthy(v) == v # "undefined" /\ v # ""

\* String.prototype.split on a separator token
RECURSIVE SplitAcc(_, _, _, _)
SplitAcc(s, sep, cur, acc) ==
  IF s = <<>> THEN Append(acc, cur)
  ELSE IF Head(s) = sep THEN SplitAcc(Tail(s), sep, <<>>, Append(acc, cur))
  ELSE SplitAcc(Tail(s), sep, Append(cur, Head(s)), acc)
Split(s, sep) == SplitAcc(s, sep, <<>>, <<>>)

(***************************************************************************)
(* Identifiers.                                                            *)
(***************************************************************************)
AccountIds == {<<"a" \o ToString(i)>> : i \in 1..NumAccounts}
LabelIds == {<<"l" \o ToString(j)>> : j \in 1..NumLabels}
NumKeys == NumAccounts * NumLabels
\* the (accountId, label) pairs in a fixed order
PairAt(n) == [accountId |-> <<"a" \o ToString(((n - 1) \div NumLabels) + 1)>>,
              label |-> <<"l" \o ToString(((n - 1) % NumLabels) + 1)>>]

keyOf(accountId, label) == accountId \o <<"::">> \o label
DirNameOf(accountId, label) == <<"session-">> \o accountId \o <<"__">> \o label

(***************************************************************************)
(* SessionManager reads.                                                   *)
(***************************************************************************)
getSessionStatus(accountId, label) ==
  LET key == keyOf(accountId, label) IN
  [accountId |-> accountId,
   label |-> label,
   status |-> IF MapHas(states, key) THEN states[key] ELSE "not_found",
   hasQr |-> MapHas(qrs, key),
   waId |-> IF MapHas(selfIds, key) THEN selfIds[key] ELSE "null"]

\* the entries of getAllSessions(), as a set (the Map's order is not modelled)
getAllSessions ==
  {[accountId |-> Split(key, "::")[1],
    label |-> IF Len(Split(key, "::")) >= 2 THEN Split(key, "::")[2] ELSE <<>>,
    status |-> IF MapHas(states, key) THEN states[key] ELSE "unknown",
    waId |-> IF MapHas(selfIds, key) THEN selfIds[key] ELSE "null",
    hasQr |-> MapHas(qrs, key)] : key \in DOMAIN clients}

\* String.prototype.includes, token-wise
Includes(s, tok) == \E i \in 1..Len(s) : s[i] = tok

\* null: its ?.accountId and ?.label are undefined, which are falsy like ''
Null == [accountId |-> <<>>, label |-> <<>>]

parseSessionDir(dirName) ==
  IF ~(Len(dirName) >= 1 /\ Head(dirName) = "session-") THEN Null
  ELSE LET sessionId == Tail(dirName)
           parts == Split(sessionId, "__") IN
       IF Includes(sessionId, "__") /\ parts[1] # <<>> /\ parts[2] # <<>>
       THEN [accountId |-> parts[1], label |-> parts[2]]
       ELSE IF sessionId = <<"default-client">>
       THEN [accountId |-> <<"default">>, label |-> <<"main">>]
       ELSE [accountId |-> <<"legacy">>, label |-> sessionId]

\* the entries of detectSessions(), one per listed directory
detectSessions ==
  {[directory |-> d,
    accountId |-> parseSessionDir(d).accountId,
    label |-> parseSessionDir(d).label,
    active |-> MapHas(clients, keyOf(parseSessionDir(d).accountId, parseSessionDir(d).label))] :
     d \in {x \in dirs : /\ Len(x) >= 1 /\ Head(x) = "session-"
                         /\ parseSessionDir(x).accountId # <<>>
                         /\ parseSessionDir(x).label # <<>>}}

(***************************************************************************)
(* What the external client can deliver.                                   *)
(***************************************************************************)
Me == "me@c.us"          \* client.info.wid.user of a ready client
Peer == "peer@c.us"      \* the other party of the one chat of the model
QrCode == "qr-code"
\* message_create fires for incoming and for outgoing messages
Messages ==
  {[id |-> <<"false", "_", Peer, "_", "M1">>, from |-> Peer, to |-> Me,
    body |-> "hi", type |-> "chat", fromMe |-> FALSE, timestamp |-> 1, hasMedia |-> FALSE],
   [id |-> <<"true", "_", Peer, "_", "M2">>, from |-> Me, to |-> Peer,
    body |-> "yo", type |-> "chat", fromMe |-> TRUE, timestamp |-> 2, hasMedia |-> FALSE]}
ClientEvents ==
  {[name |-> n] : n \in {"qr", "authenticated", "auth_failure", "ready", "disconnected"}}
    \cup {[name |-> "message_create", message |-> m] : m \in Messages}

(***************************************************************************)
(* Client objects.  A Client is modelled by what bindEvents closed over    *)
(* (accountId, label), the state of its initialize() promise, whether its  *)
(* browser is up (it can emit events), and the number of destroySession    *)
(* calls that await its destroy().  clients holds the registered ones,     *)
(* stale the others.  destroyCalled is history: whether destroy() was ever *)
(* invoked on the object.                                                  *)
(***************************************************************************)
NewClient(accountId, label) ==
  [accountId |-> accountId, label |-> label, init |-> "pending", live |-> TRUE, destroying |-> 0,
   destroyCalled |-> FALSE]

RegisteredRefs == {[at |-> "clients", key |-> k] : k \in DOMAIN clients}
StaleRefs == {[at |-> "stale", obj |-> o] : o \in BagToSet(stale)}
ClientRefs == RegisteredRefs \cup StaleRefs
Obj(ref) == IF ref.at = "clients" THEN clients[ref.key] ELSE ref.obj

\* an object nothing refers to any more: destroyed, no call awaits it
Inert(o) == ~o.live /\ o.init # "pending" /\ o.destroying = 0
BagAdd(b, o) == IF Inert(o) THEN b ELSE b (+) SetToBag({o})
BagRemove(b, o) == b (-) SetToBag({o})

\* the two collections after the object at ref has become o
ClientsWith(ref, o) == IF ref.at = "clients" THEN MapSet(clients, ref.key, o) ELSE clients
StaleWith(ref, o) == IF ref.at = "stale" THEN BagAdd(BagRemove(stale, ref.obj), o) ELSE stale

\* this.clients.delete(key): the object that was registered is referenced
\* by the Map no more
StaleAfterDelete(cl, st, key) == IF MapHas(cl, key) THEN BagAdd(st, cl[key]) ELSE st

NumClients == Cardinality(DOMAIN clients) + BagCardinality(stale)
\* the registered clients whose initialize() is pending
NumPending == Cardinality({k \in DOMAIN clients : clients[k].init = "pending"})

\* The pairs a caller may name: those a client exists for, and the first
\* pair no client exists for (the pairs are interchangeable).
UsedPairs == {n \in 1..NumKeys :
                \/ MapHas(clients, keyOf(PairAt(n).accountId, PairAt(n).label))
                \/ \E o \in BagToSet(stale) : /\ o.accountId = PairAt(n).accountId
                                              /\ o.label = PairAt(n).label}
FirstUnused == IF UsedPairs = 1..NumKeys THEN {}
               ELSE {CHOOSE n \in (1..NumKeys) \ UsedPairs :
                       \A m \in (1..NumKeys) \ UsedPairs : n <= m}
CallablePairs == {PairAt(n) : n \in UsedPairs \cup FirstUnused}
\* the pairs the callers of Spec name
FewPairs == {PairAt(n) : n \in {m \in 1..NumKeys : m <= NumPairs}}

Event(name, data) == [name |-> name, data |-> data]

(***************************************************************************)
(* SessionManager.initSession: up to the await of client.initialize().     *)
(***************************************************************************)
\* initSession without the test for a registered key: a second client replaces
\* the first
InitSessionAgain(accountId, label) ==
  LET key == keyOf(accountId, label) IN
  /\ MapHas(clients, key)
  /\ clients' = MapSet(clients, key, NewClient(accountId, label))
  /\ stale' = StaleAfterDelete(clients, stale, key)
  /\ states' = MapSet(states, key, "initializing")
  /\ lastCall' = [op |-> "initSession", stage |-> "call",
                  accountId |-> accountId, label |-> label,
                  outcome |-> "awaiting"]
  /\ emitted' = <<>>
  /\ destroyed' = destroyed \ {[accountId |-> accountId, label |-> label]}
  /\ UNCHANGED <<qrs, selfIds, dirs, nEvents, nDestroys>>
  /\ UNCHANGED <<listeners, connected, nSockets, pureVars>>

InitSessionExists(accountId, label) ==
  LET key == keyOf(accountId, label) IN
  /\ MapHas(clients, key)
  /\ lastCall' = [op |-> "initSession", stage |-> "call",
                  accountId |-> accountId, label |-> label,
                  outcome |-> "return",
                  ret |-> [accountId |-> accountId, label |-> label,
                           status |-> MapGet(states, key), exists |-> TRUE,
                           hasQr |-> Truthy(MapGet(qrs, key))]]
  /\ emitted' = <<>>
  /\ UNCHANGED <<clients, states, qrs, selfIds, stale, dirs, nEvents, nDestroys>>
  /\ destroyed' = destroyed \ {[accountId |-> accountId, label |-> label]}
  /\ UNCHANGED <<listeners, connected, nSockets, pureVars>>

CapacityError == "Maximum session limit (5) reached"

\* the capacity test off by one
AtCapacityOffByOne == Cardinality(DOMAIN clients) > MaxSessions

AtCapacity == Cardinality(DOMAIN clients) >= MaxSessions

InitSessionFull(accountId, label) ==
  LET key == keyOf(accountId, label) IN
  /\ ~MapHas(clients, key)
  /\ AtCapacity
  /\ lastCall' = [op |-> "initSession", stage |-> "call",
                  accountId |-> accountId, label |-> label,
                  outcome |-> "throw", error |-> CapacityError]
  /\ emitted' = <<>>
  /\ UNCHANGED <<clients, states, qrs, selfIds, stale, dirs, nEvents, nDestroys>>
  /\ destroyed' = destroyed \ {[accountId |-> accountId, label |-> label]}
  /\ UNCHANGED <<listeners, connected, nSockets, pureVars>>

\* an initSession that finds the key of a destroyed session still taken
InitSessionNewRefused(accountId, label) ==
  LET key == keyOf(accountId, label) IN
  /\ ~MapHas(clients, key)
  /\ ~AtCapacity
  /\ lastCall' = [op |-> "initSession", stage |-> "call",
                  accountId |-> accountId, label |-> label,
                  outcome |-> "throw", error |-> "Session already exists"]
  /\ emitted' = <<>>
  /\ UNCHANGED <<clients, states, qrs, selfIds, stale, dirs, nEvents, nDestroys>>
  /\ destroyed' = destroyed \ {[accountId |-> accountId, label |-> label]}
  /\ UNCHANGED <<listeners, connected, nSockets, pureVars>>

\* reuse: history, whether a destroySession of the pair had completed with no
\* initSession of it since
InitSessionNew(accountId, label) ==
  LET key == keyOf(accountId, label) IN
  /\ ~MapHas(clients, key)
  /\ ~AtCapacity
  /\ clients' = MapSet(clients, key, NewClient(accountId, label))
  /\ states' = MapSet(states, key, "initializing")
  \* LocalAuth creates the client's directory as initialize() starts
  /\ dirs' = dirs \cup {DirNameOf(accountId, label)}
  /\ lastCall' = [op |-> "initSession", stage |-> "call",
                  accountId |-> accountId, label |-> label,
                  outcome |-> "awaiting",
                  reuse |-> [accountId |-> accountId, label |-> label] \in destroyed]
  /\ emitted' = <<>>
  /\ UNCHANGED <<qrs, selfIds, stale, nEvents, nDestroys>>
  /\ destroyed' = destroyed \ {[accountId |-> accountId, label |-> label]}
  /\ UNCHANGED <<listeners, connected, nSockets, pureVars>>

InitSession(accountId, label) ==
  \/ InitSessionExists(accountId, label)
  \/ InitSessionFull(accountId, label)
  \/ InitSessionNew(accountId, label)

(***************************************************************************)
(* initSession after the await: client.initialize() resolved or rejected.  *)
(***************************************************************************)
InitializeResolved(ref) ==
  LET o == Obj(ref) IN
  /\ o.init = "pending"
  /\ clients' = ClientsWith(ref, [o EXCEPT !.init = "resolved"])
  /\ stale' = StaleWith(ref, [o EXCEPT !.init = "resolved"])
  /\ lastCall' = [op |-> "initSession", stage |-> "resumed",
                  accountId |-> o.accountId, label |-> o.label,
                  outcome |-> "return",
                  ret |-> [accountId |-> o.accountId, label |-> o.label,
                           status |-> "initializing", exists |-> FALSE]]
  /\ emitted' = <<>>
  /\ UNCHANGED <<states, qrs, selfIds, dirs, nEvents, nDestroys, destroyed>>
  /\ UNCHANGED <<listeners, connected, nSockets, pureVars>>

\* browserUp: whether the client that failed to initialize still has a browser
InitializeRejected(ref, browserUp) ==
  LET o == Obj(ref)
      key == keyOf(o.accountId, o.label)
      after == [o EXCEPT !.init = "rejected", !.live = @ /\ browserUp]
      cl == ClientsWith(ref, after)
      st == StaleWith(ref, after) IN
  /\ o.init = "pending"
  /\ clients' = MapDelete(cl, key)
  /\ stale' = StaleAfterDelete(cl, st, key)
  /\ states' = MapDelete(states, key)
  /\ lastCall' = [op |-> "initSession", stage |-> "resumed",
                  accountId |-> o.accountId, label |-> o.label,
                  outcome |-> "throw", error |-> "initialize failed"]
  /\ emitted' = <<>>
  /\ UNCHANGED <<qrs, selfIds, dirs, nEvents, nDestroys, destroyed>>
  /\ UNCHANGED <<listeners, connected, nSockets, pureVars>>

(***************************************************************************)
(* index.js: the socket fan-out of the registry's events.                  *)
(***************************************************************************)
Channel(name, accountId, label) == <<name, ":">> \o accountId \o <<":">> \o label

Emit(socket, channel, data) == [socket |-> socket, channel |-> channel, data |-> data]

\* the socket.emit calls of the listeners one 'connection' registered
HandlerEmits(socket, e) ==
  LET d == e.data IN
  IF e.name = "message"
  THEN <<Emit(socket, Channel("message", d.accountId, d.label), d),
         Emit(socket, <<"message">>, d),
         Emit(socket, Channel("chat_message", d.accountId, d.label) \o <<":", d.message.from>>,
              d.message),
         Emit(socket, Channel("chat_message", d.accountId, d.label), d.message)>>
  ELSE <<Emit(socket, Channel(e.name, d.accountId, d.label), d),
         Emit(socket, <<e.name>>, d)>>

\* EventEmitter.emit: the listeners run in the order they were registered
RECURSIVE Fanout(_, _)
Fanout(ls, e) ==
  IF ls = <<>> THEN <<>> ELSE HandlerEmits(Head(ls), e) \o Fanout(Tail(ls), e)

RECURSIVE SentFor(_, _)
SentFor(ls, es) ==
  IF es = <<>> THEN <<>> ELSE Fanout(ls, Head(es)) \o SentFor(ls, Tail(es))

\* socket.emit throws for the sockets of broken, and nothing between it and
\* the handler of the client's event catches: the emits up to the first
\* that throws are the ones made
EmitThrows(ls, es) ==
  \E j \in 1..Len(SentFor(ls, es)) : SentFor(ls, es)[j].socket \in broken

Made(seq) ==
  LET first == CHOOSE n \in 1..(Len(seq) + 1) :
                 /\ n <= Len(seq) => seq[n].socket \in broken
                 /\ \A j \in 1..(n - 1) : seq[j].socket \notin broken IN
  SubSeq(seq, 1, first - 1)

\* every socket.emit the last step made, in order
Sent == Made(SentFor(listeners, emitted))

(***************************************************************************)
(* SessionManager.bindEvents: the handlers of one client's events.         *)
(***************************************************************************)
\* a qr handler that leaves the status of a session that has ended
OnQrUnlessEnded(accountId, label) ==
  LET key == keyOf(accountId, label) IN
  /\ qrs' = MapSet(qrs, key, QrCode)
  /\ states' = IF MapGet(states, key) \in {"disconnected", "auth_failure"}
                THEN states ELSE MapSet(states, key, "scanning")
  /\ emitted' = <<Event("qr", [accountId |-> accountId, label |-> label, qr |-> QrCode]),
                  Event("status", [accountId |-> accountId, label |-> label,
                                   status |-> "scanning", hasQr |-> TRUE])>>
  /\ UNCHANGED selfIds

OnQr(accountId, label) ==
  LET key == keyOf(accountId, label) IN
  /\ qrs' = MapSet(qrs, key, QrCode)
  /\ states' = MapSet(states, key, "scanning")
  /\ emitted' = <<Event("qr", [accountId |-> accountId, label |-> label, qr |-> QrCode]),
                  Event("status", [accountId |-> accountId, label |-> label,
                                   status |-> "scanning", hasQr |-> TRUE])>>
  /\ UNCHANGED selfIds

OnAuthenticated(accountId, label) ==
  LET key == keyOf(accountId, label) IN
  /\ qrs' = MapDelete(qrs, key)
  /\ states' = MapSet(states, key, "authenticated")
  /\ emitted' = <<Event("status", [accountId |-> accountId, label |-> label,
                                   status |-> "authenticated", hasQr |-> FALSE])>>
  /\ UNCHANGED selfIds

OnAuthFailure(accountId, label) ==
  LET key == keyOf(accountId, label) IN
  /\ states' = MapSet(states, key, "auth_failure")
  /\ emitted' = <<Event("status", [accountId |-> accountId, label |-> label,
                                   status |-> "auth_failure", error |-> "msg"])>>
  /\ UNCHANGED <<qrs, selfIds>>

OnReady(accountId, label) ==
  LET key == keyOf(accountId, label) IN
  /\ states' = MapSet(states, key, "ready")
  /\ selfIds' = MapSet(selfIds, key, Me)
  /\ emitted' = <<Event("status", [accountId |-> accountId, label |-> label,
                                   status |-> "ready", hasQr |-> FALSE, waId |-> Me])>>
  /\ UNCHANGED qrs

OnDisconnected(accountId, label) ==
  LET key == keyOf(accountId, label) IN
  /\ states' = MapSet(states, key, "disconnected")
  /\ selfIds' = MapDelete(selfIds, key)
  /\ emitted' = <<Event("status", [accountId |-> accountId, label |-> label,
                                   status |-> "disconnected", reason |-> "reason"])>>
  /\ UNCHANGED qrs

OnMessageCreate(accountId, label, message) ==
  /\ emitted' = <<Event("message", [accountId |-> accountId, label |-> label,
                                    message |-> message])>>
  /\ UNCHANGED <<states, qrs, selfIds>>

\* a client whose browser is up delivers one event to its handler
ClientEvent(ref, e) ==
  LET o == Obj(ref) IN
  /\ o.live
  /\ nEvents' = nEvents + 1
  /\ CASE e.name = "qr" -> OnQr(o.accountId, o.label)
       [] e.name = "authenticated" -> OnAuthenticated(o.accountId, o.label)
       [] e.name = "auth_failure" -> OnAuthFailure(o.accountId, o.label)
       [] e.name = "ready" -> OnReady(o.accountId, o.label)
       [] e.name = "disconnected" -> OnDisconnected(o.accountId, o.label)
       [] OTHER -> OnMessageCreate(o.accountId, o.label, e.message)
  \* registered: whether the client is the one in clients; was: history, the
  \* status of its key before the event
  /\ lastCall' = [op |-> "clientEvent", threw |-> EmitThrows(listeners, emitted'),
                  event |-> e.name, accountId |-> o.accountId, label |-> o.label,
                  registered |-> ref.at = "clients",
                  was |-> MapGet(states, keyOf(o.accountId, o.label))]
  /\ UNCHANGED <<clients, stale, dirs, nDestroys, destroyed>>
  /\ UNCHANGED <<listeners, connected, nSockets, pureVars>>

(***************************************************************************)
(* SessionManager.destroySession.                                          *)
(***************************************************************************)
\* fs.rmSync of the credential directory, inside try/catch: it may fail
RmSessionDir(accountId, label, rmOk) ==
  IF rmOk THEN dirs \ {DirNameOf(accountId, label)} ELSE dirs

DestroyedEvent(accountId, label) ==
  Event("session_destroyed", [accountId |-> accountId, label |-> label])

DestroyReturn(accountId, label) ==
  [op |-> "destroySession", accountId |-> accountId, label |-> label,
   outcome |-> "return",
   ret |-> [accountId |-> accountId, label |-> label, destroyed |-> TRUE]]

\* this.emit('session_destroyed', ...) is outside every try: a listener that
\* throws makes the call reject
DestroyOutcome(accountId, label) ==
  IF EmitThrows(listeners, <<DestroyedEvent(accountId, label)>>)
  THEN [op |-> "destroySession", accountId |-> accountId, label |-> label,
        outcome |-> "throw", error |-> "emit failed"]
  ELSE DestroyReturn(accountId, label)

\* destroySession that rejects a key nothing is registered under
DestroySessionAbsentThrows(accountId, label, rmOk) ==
  /\ ~MapHas(clients, keyOf(accountId, label))
  /\ nDestroys' = nDestroys + 1
  /\ lastCall' = [op |-> "destroySession", accountId |-> accountId, label |-> label,
                  outcome |-> "throw", error |-> "Session not found"]
  /\ emitted' = <<>>
  /\ UNCHANGED <<clients, states, qrs, selfIds, stale, dirs, nEvents, destroyed>>
  /\ UNCHANGED <<listeners, connected, nSockets, pureVars>>

\* no client under the key: the call runs to its end without awaiting
DestroySessionAbsent(accountId, label, rmOk) ==
  /\ ~MapHas(clients, keyOf(accountId, label))
  /\ nDestroys' = nDestroys + 1
  /\ dirs' = RmSessionDir(accountId, label, rmOk)
  /\ emitted' = <<DestroyedEvent(accountId, label)>>
  /\ lastCall' = DestroyOutcome(accountId, label)
  /\ UNCHANGED <<clients, states, qrs, selfIds, stale, nEvents>>
  /\ destroyed' = destroyed \cup {[accountId |-> accountId, label |-> label]}
  /\ UNCHANGED <<listeners, connected, nSockets, pureVars>>

\* a client under the key: the call awaits client.destroy()
DestroySessionBegin(accountId, label) ==
  LET key == keyOf(accountId, label) IN
  /\ MapHas(clients, key)
  /\ nDestroys' = nDestroys + 1
  /\ clients' = [clients EXCEPT ![key].destroying = @ + 1, ![key].destroyCalled = TRUE]
  /\ lastCall' = [op |-> "destroySession", accountId |-> accountId, label |-> label,
                  outcome |-> "awaiting"]
  /\ emitted' = <<>>
  /\ UNCHANGED <<states, qrs, selfIds, stale, dirs, nEvents, destroyed>>
  /\ UNCHANGED <<listeners, connected, nSockets, pureVars>>

\* client.destroy() has resolved (destroyOk) or thrown: the rest of the call
DestroySessionFinish(ref, destroyOk, rmOk) ==
  LET o == Obj(ref)
      key == keyOf(o.accountId, o.label)
      after == [o EXCEPT !.destroying = @ - 1,
                         !.live = IF destroyOk THEN FALSE ELSE @]
      cl == ClientsWith(ref, after)
      st == StaleWith(ref, after) IN
  /\ o.destroying > 0
  /\ clients' = MapDelete(cl, key)
  /\ stale' = StaleAfterDelete(cl, st, key)
  /\ states' = MapDelete(states, key)
  /\ qrs' = MapDelete(qrs, key)
  /\ selfIds' = MapDelete(selfIds, key)
  /\ dirs' = RmSessionDir(o.accountId, o.label, rmOk)
  /\ emitted' = <<DestroyedEvent(o.accountId, o.label)>>
  /\ lastCall' = DestroyOutcome(o.accountId, o.label)
  /\ UNCHANGED <<nEvents, nDestroys>>
  /\ destroyed' = destroyed \cup {[accountId |-> o.accountId, label |-> o.label]}
  /\ UNCHANGED <<listeners, connected, nSockets, pureVars>>

(***************************************************************************)
(* index.js: io.on('connection').                                          *)
(***************************************************************************)
\* a connection that hands the events of the last step to the new listener
ConnectionReplays ==
  /\ nSockets' = nSockets + 1
  /\ connected' = connected \cup {nSockets + 1}
  /\ listeners' = Append(listeners, nSockets + 1)
  /\ lastCall' = [op |-> "connection", socket |-> nSockets + 1,
                  sessions_list |-> getAllSessions]
  /\ UNCHANGED emitted
  /\ UNCHANGED <<clients, states, qrs, selfIds, stale, dirs, nEvents, nDestroys, destroyed>>
  /\ UNCHANGED pureVars

\* a connection whose listeners are registered twice
ConnectionTwice ==
  /\ nSockets' = nSockets + 1
  /\ connected' = connected \cup {nSockets + 1}
  /\ listeners' = listeners \o <<nSockets + 1, nSockets + 1>>
  /\ lastCall' = [op |-> "connection", socket |-> nSockets + 1,
                  sessions_list |-> getAllSessions]
  /\ emitted' = <<>>
  /\ UNCHANGED <<clients, states, qrs, selfIds, stale, dirs, nEvents, nDestroys, destroyed>>
  /\ UNCHANGED pureVars

Connection ==
  /\ nSockets' = nSockets + 1
  /\ connected' = connected \cup {nSockets + 1}
  /\ listeners' = Append(listeners, nSockets + 1)
  /\ lastCall' = [op |-> "connection", socket |-> nSockets + 1,
                  sessions_list |-> getAllSessions]
  /\ emitted' = <<>>
  /\ UNCHANGED <<clients, states, qrs, selfIds, stale, dirs, nEvents, nDestroys, destroyed>>
  /\ UNCHANGED pureVars

Disconnect(socket) ==
  /\ socket \in connected
  /\ connected' = connected \ {socket}
  /\ lastCall' = [op |-> "disconnect", socket |-> socket]
  /\ emitted' = <<>>
  /\ UNCHANGED <<listeners, nSockets, pureVars>>
  /\ UNCHANGED <<clients, states, qrs, selfIds, stale, dirs, nEvents, nDestroys, destroyed>>

\* from now on socket.emit of this socket throws
BreakSocket(socket) ==
  /\ socket \in connected \ broken
  /\ broken' = broken \cup {socket}
  /\ lastCall' = [op |-> "socketBreaks", socket |-> socket]
  /\ emitted' = <<>>
  /\ UNCHANGED <<listeners, connected, nSockets, rangeVars, dlVars, mediaVars, tenantVars, wsVars>>
  /\ UNCHANGED <<clients, states, qrs, selfIds, stale, dirs, nEvents, nDestroys, destroyed>>

(***************************************************************************)
(* lib/utils/httpRange.js: sendBufferWithRange.  A Range header is a       *)
(* sequence of characters, with the prefix "bytes=" as one token.          *)
(***************************************************************************)
DigitChars == <<"0", "1", "2", "3", "4", "5", "6", "7", "8", "9">>
IsDigit(c) == \E i \in 1..Len(DigitChars) : DigitChars[i] = c
DigitValue(c) == (CHOOSE i \in 1..Len(DigitChars) : DigitChars[i] = c) - 1

\* parseInt(ds, 10) of a non-empty string of digits
RECURSIVE ParseInt(_)
ParseInt(ds) ==
  IF Len(ds) = 1 THEN DigitValue(ds[1])
  ELSE ParseInt(SubSeq(ds, 1, Len(ds) - 1)) * Len(DigitChars) + DigitValue(ds[Len(ds)])

\* String(n) of a natural number
RECURSIVE StringOf(_)
StringOf(n) ==
  IF n < Len(DigitChars) THEN <<DigitChars[n + 1]>>
  ELSE StringOf(n \div Len(DigitChars)) \o <<DigitChars[(n % Len(DigitChars)) + 1]>>

Min(a, b) == IF a <= b THEN a ELSE b

\* /^bytes=(\d*)-(\d*)$/.exec(rangeHeader)
RangeExec(h) ==
  LET rest == IF h = <<>> THEN <<>> ELSE Tail(h)
      \* the longest prefix of digits
      k == CHOOSE n \in 0..Len(rest) :
             /\ \A i \in 1..n : IsDigit(rest[i])
             /\ n < Len(rest) => ~IsDigit(rest[n + 1])
      after == SubSeq(rest, k + 1, Len(rest)) IN
  IF /\ h # <<>>
     /\ Head(h) = "bytes="
     /\ after # <<>>
     /\ Head(after) = "-"
     /\ \A i \in 2..Len(after) : IsDigit(after[i])
  THEN [matched |-> TRUE, m1 |-> SubSeq(rest, 1, k), m2 |-> Tail(after)]
  ELSE [matched |-> FALSE, m1 |-> <<>>, m2 |-> <<>>]

\* an omitted start read as byte 1
RangeStartOne(m1) == IF m1 # <<>> THEN ParseInt(m1) ELSE 1

RangeStart(m1) == IF m1 # <<>> THEN ParseInt(m1) ELSE 0

\* Math.min without the clamp to the last byte
RangeEndUnclamped(m2, size) == IF m2 # <<>> THEN ParseInt(m2) ELSE size - 1

RangeEnd(m2, size) == IF m2 # <<>> THEN Min(ParseInt(m2), size - 1) ELSE size - 1

\* buffer.subarray(begin, end): both clamped to the buffer
Subarray(buffer, begin, end) ==
  SubSeq(buffer, Min(begin, Len(buffer)) + 1, Min(end, Len(buffer)))

\* encodeURIComponent, on the characters file names of the model have
EncodeURIComponent(name) ==
  [i \in 1..Len(name) |-> IF name[i] = " " THEN "%20" ELSE name[i]]

ContentDisposition(filename) ==
  <<"inline; filename=\"">> \o EncodeURIComponent(filename) \o <<"\"">>

\* res before the call: Express answers 200 unless told otherwise
NoResponse == [status |-> 200, headers |-> EmptyMap, body |-> <<>>, ended |-> FALSE]

\* a header that was not sent is undefined; one that was sent is a string
NoHeader == [present |-> FALSE, value |-> <<>>]
Header(v) == [present |-> TRUE, value |-> v]
\* if (rangeHeader)
TruthyHeader(h) == h.present /\ h.value # <<>>

sendBufferWithRange(buffer, mimetype, filename, rangeHeader) ==
  LET size == Len(buffer)
      base == MapSet(MapSet(EmptyMap, "Content-Type", mimetype), "Accept-Ranges", "bytes")
      m == RangeExec(rangeHeader.value)
      start == RangeStart(m.m1)
      end == RangeEnd(m.m2, size)
      chunk == Subarray(buffer, start, end + 1) IN
  IF TruthyHeader(rangeHeader)
  THEN IF ~m.matched
       THEN [status |-> 416, headers |-> base, body |-> <<>>, ended |-> TRUE]
       \* parseInt of a string of digits is never NaN
       ELSE IF start > end \/ start >= size
       THEN [status |-> 416, headers |-> base, body |-> <<>>, ended |-> TRUE]
       ELSE [status |-> 206,
             headers |-> MapSet(MapSet(MapSet(base,
                           "Content-Range",
                           <<"bytes ">> \o StringOf(start) \o <<"-">> \o StringOf(end)
                             \o <<"/">> \o StringOf(size)),
                           "Content-Length", StringOf(Len(chunk))),
                           "Content-Disposition", ContentDisposition(filename)),
             body |-> chunk,
             ended |-> TRUE]
  ELSE [status |-> 200,
        headers |-> MapSet(MapSet(base, "Content-Length", StringOf(size)),
                           "Content-Disposition", ContentDisposition(filename)),
        body |-> buffer,
        ended |-> TRUE]

\* The calls of the model: buffers of every length up to MaxBufLen whose
\* bytes differ, and the headers below.
BufferOf(n) == [i \in 1..n |-> i]
RangeDigits == {"0", "1", "4", "9"}
DigitStrings == UNION {[1..k -> RangeDigits] : k \in 0..MaxDigits}
WellFormedRanges == {<<"bytes=">> \o a \o <<"-">> \o b : a \in DigitStrings, b \in DigitStrings}
OtherRanges ==
  {<<>>,
   <<"bytes=">>,
   <<"bytes=", "1", "4">>,
   <<"bytes=", "-", "-">>,
   <<"bytes=", "-", "1", "-", "4">>,
   <<"bytes=", "1", "x", "-", "4">>,
   <<"bytes=", "1", "-", "4", "x">>,
   <<"bytes=", " ", "1", "-", "4">>,
   <<"items=", "0", "-", "1">>,
   <<" ", "bytes=", "0", "-", "1">>}
RangeHeaders == {NoHeader} \cup {Header(v) : v \in WellFormedRanges \cup OtherRanges}
RangeRequests ==
  {[buffer |-> BufferOf(n), mimetype |-> "image/jpeg", filename |-> <<"my", " ", "photo.jpg">>,
    range |-> h] : n \in 0..MaxBufLen, h \in RangeHeaders}
NoRequest == [buffer |-> <<>>, mimetype |-> "", filename |-> <<>>, range |-> NoHeader]

SendBufferWithRange ==
  /\ ~rangeRes.ended
  /\ rangeRes' = sendBufferWithRange(rangeReq.buffer, rangeReq.mimetype, rangeReq.filename,
                                     rangeReq.range)
  /\ UNCHANGED <<rangeReq, sessVars, busVars, restoreVars, faultVars, wsVars, dlVars, mediaVars, tenantVars>>

RangeIdle == rangeReq = NoRequest /\ rangeRes = NoResponse

(***************************************************************************)
(* lib/contacts/contactsManager.js: downloadMedia and downloadMessageMedia.*)
(* One call, from await to await.  The message looked for is the rank-th   *)
(* most recent message of the chat home (rank 0: it is in no chat).        *)
(***************************************************************************)
\* the windows of the targeted scan, without the widest
WindowsShort == <<120, 300, 600>>

Windows == <<120, 300, 600, 1200>>

OtherChat == "group@g.us"
\* client.getChats()
Chats == <<OtherChat, Peer>>

DlMessageIds ==
  {<<"false", "_", Peer, "_", "3EB0">>,    \* the chat id is the second segment
   <<"false", "_", "_", "3EB0">>,          \* an empty second segment
   <<"3EB0">>}                             \* no underscore
\* the ranks around the limits of the fetches
DlRanks == {0, 1, GlobalLimit, GlobalLimit + 1}
             \cup {Windows[i] : i \in 1..Len(Windows)}
             \cup {Windows[i] + 1 : i \in 1..Len(Windows)}
DlRequests ==
  {[messageId |-> id, hasClient |-> c, home |-> h, rank |-> r, hasMedia |-> hm] :
     id \in DlMessageIds, c \in BOOLEAN, h \in {Peer, OtherChat}, r \in DlRanks, hm \in BOOLEAN}
NoDownload == [messageId |-> <<>>, hasClient |-> FALSE, home |-> "", rank |-> 0,
               hasMedia |-> FALSE]

\* chat.fetchMessages({ limit }) holds the message
Fetched(chat, limit) == dlReq.home = chat /\ 1 <= dlReq.rank /\ dlReq.rank <= limit

\* const chatId = parts.length >= 2 ? parts[1] : null; '' stands for null
ChatIdOf(messageId) ==
  LET parts == Split(messageId, "_") IN
  IF Len(parts) >= 2 /\ parts[2] # <<>> THEN parts[2][1] ELSE ""

DlCall(call, stage, chat, limit, result) ==
  [call |-> call, stage |-> stage, chat |-> chat, limit |-> limit, result |-> result]

DlStartAt == [i |-> 1, j |-> 1, attempt |-> 1, from |-> "", lastErr |-> "", wait |-> 0, waits |-> 0]

NotFoundError == "Message with ID not found in recent messages"
\* the outer catch: new Error(`Failed to download media: ${error.message}`)
Rewrapped(msg) == "Failed to download media: " \o msg

\* the lookup goes on after the direct fetch
DlSearch(log, at) ==
  /\ dlLog' = log
  /\ dlAt' = at
  /\ dlPc' = IF ChatIdOf(dlReq.messageId) # "" THEN "getChat" ELSE "getChats"
  /\ UNCHANGED dlOut

\* the lookup goes on after the targeted scan
DlGlobal(log, at) ==
  /\ dlLog' = log
  /\ dlAt' = at
  /\ dlPc' = "getChats"
  /\ UNCHANGED dlOut

\* the global scan goes on with the next chat, or ends
DlNextChat(log, at) ==
  /\ dlLog' = log
  /\ IF at.j < Len(Chats)
     THEN /\ dlPc' = "scan"
          /\ dlAt' = [at EXCEPT !.j = @ + 1]
          /\ UNCHANGED dlOut
     ELSE /\ dlPc' = "thrown"
          /\ dlAt' = at
          /\ dlOut' = [outcome |-> "throw", error |-> Rewrapped(NotFoundError)]

\* downloadMessageMedia threw: the catch around the stage that called it
DlDownloadFailed(log, at) ==
  CASE at.from = "direct" -> DlSearch(log, at)
    [] at.from = "targeted" -> DlGlobal(log, at)
    [] OTHER -> DlNextChat(log, at)

\* return await this.downloadMessageMedia(found, messageId): up to its first await
DlFound(log, stage) ==
  LET log2 == Append(log, DlCall("downloadMessageMedia", stage, "", 0,
                                 IF dlReq.hasMedia THEN "called" ELSE "throw"))
      at == [dlAt EXCEPT !.from = stage, !.attempt = 1] IN
  IF dlReq.hasMedia
  THEN /\ dlLog' = log2
       /\ dlPc' = "attempt"
       /\ dlAt' = [at EXCEPT !.lastErr = ""]
       /\ UNCHANGED dlOut
  ELSE \* 'Message does not contain media'
       DlDownloadFailed(log2, at)

DlBegin ==
  /\ dlPc = "start"
  /\ IF dlReq.hasClient
     THEN dlPc' = "direct" /\ UNCHANGED dlOut
     ELSE dlPc' = "thrown" /\ dlOut' = [outcome |-> "throw", error |-> "Session not found"]
  /\ UNCHANGED <<dlReq, dlAt, dlLog, rangeVars, sessVars, busVars, restoreVars, faultVars, wsVars, mediaVars, tenantVars>>

\* await client.getMessageById(messageId)
DlDirect(result) ==
  LET log == Append(dlLog, DlCall("getMessageById", "direct", "", 0, result)) IN
  /\ dlPc = "direct"
  /\ IF result = "found" THEN DlFound(log, "direct") ELSE DlSearch(log, dlAt)
  /\ UNCHANGED <<dlReq, rangeVars, sessVars, busVars, restoreVars, faultVars, wsVars, mediaVars, tenantVars>>

\* await client.getChatById(chatId)
DlGetChat(ok) ==
  LET log == Append(dlLog, DlCall("getChatById", "targeted", ChatIdOf(dlReq.messageId), 0,
                                  IF ok THEN "ok" ELSE "throw")) IN
  /\ dlPc = "getChat"
  /\ dlLog' = log
  /\ dlPc' = IF ok THEN "window" ELSE "getChats"
  /\ dlAt' = [dlAt EXCEPT !.i = 1]
  /\ UNCHANGED <<dlReq, dlOut, rangeVars, sessVars, busVars, restoreVars, faultVars, wsVars, mediaVars, tenantVars>>

\* await chat.fetchMessages({ limit }) of the targeted scan
DlFetchWindow(ok) ==
  LET chatId == ChatIdOf(dlReq.messageId)
      limit == Windows[dlAt.i]
      found == ok /\ Fetched(chatId, limit)
      log == Append(dlLog, DlCall("fetchMessages", "targeted", chatId, limit,
                                  IF ~ok THEN "throw" ELSE IF found THEN "found" ELSE "miss")) IN
  /\ dlPc = "window"
  /\ IF found THEN DlFound(log, "targeted")
     ELSE IF ok /\ dlAt.i < Len(Windows)
     THEN dlLog' = log /\ dlAt' = [dlAt EXCEPT !.i = @ + 1] /\ UNCHANGED <<dlPc, dlOut>>
     ELSE DlGlobal(log, dlAt)
  /\ UNCHANGED <<dlReq, rangeVars, sessVars, busVars, restoreVars, faultVars, wsVars, mediaVars, tenantVars>>

\* await client.getChats()
DlGetChats(ok) ==
  /\ dlPc = "getChats"
  /\ dlLog' = Append(dlLog, DlCall("getChats", "global", "", 0, IF ok THEN "ok" ELSE "throw"))
  /\ IF ok
     THEN dlPc' = "scan" /\ dlAt' = [dlAt EXCEPT !.j = 1] /\ UNCHANGED dlOut
     ELSE /\ dlPc' = "thrown"
          /\ dlOut' = [outcome |-> "throw", error |-> Rewrapped("getChats failed")]
          /\ UNCHANGED dlAt
  /\ UNCHANGED <<dlReq, rangeVars, sessVars, busVars, restoreVars, faultVars, wsVars, mediaVars, tenantVars>>

\* await chat.fetchMessages({ limit: 50 }) of the global scan
DlScan(ok) ==
  LET chat == Chats[dlAt.j]
      found == ok /\ Fetched(chat, GlobalLimit)
      log == Append(dlLog, DlCall("fetchMessages", "global", chat, GlobalLimit,
                                  IF ~ok THEN "throw" ELSE IF found THEN "found" ELSE "miss")) IN
  /\ dlPc = "scan"
  /\ IF found THEN DlFound(log, "global") ELSE DlNextChat(log, dlAt)
  /\ UNCHANGED <<dlReq, rangeVars, sessVars, busVars, restoreVars, faultVars, wsVars, mediaVars, tenantVars>>

\* a delay that grows by the base, not by doubling
PowLinear(b, e) == 1 + e

\* Math.pow
RECURSIVE Pow(_, _)
Pow(b, e) == IF e = 0 THEN 1 ELSE b * Pow(b, e - 1)

EmptyResultError == "Failed to download media - no media data returned"

\* one attempt of downloadMessageMedia: await message.downloadMedia(), and
\* after a failure the wait
DlAttempt(result, jitter) ==
  LET log == Append(dlLog, DlCall("downloadMedia", dlAt.from, "", 0, "awaited"))
      err == IF result = "empty" THEN EmptyResultError ELSE "transport error"
      after == [dlAt EXCEPT !.lastErr = err,
                            !.wait = BaseDelayMs * Pow(2, dlAt.attempt - 1) + jitter,
                            !.waits = @ + 1] IN
  /\ dlPc = "attempt"
  /\ IF result = "data"
     THEN /\ dlLog' = log
          /\ dlPc' = "returned"
          /\ dlOut' = [outcome |-> "return", success |-> TRUE, messageId |-> dlReq.messageId]
          /\ UNCHANGED dlAt
     ELSE IF dlAt.attempt < MaxAttempts
     THEN /\ dlLog' = log
          /\ dlAt' = [after EXCEPT !.attempt = @ + 1]
          /\ UNCHANGED <<dlPc, dlOut>>
     ELSE \* throw lastErr
          DlDownloadFailed(log, after)
  /\ UNCHANGED <<dlReq, rangeVars, sessVars, busVars, restoreVars, faultVars, wsVars, mediaVars, tenantVars>>

DlIdle ==
  /\ dlReq = NoDownload
  /\ dlPc = "idle"
  /\ dlAt = DlStartAt
  /\ dlLog = <<>>
  /\ dlOut = [outcome |-> "none"]

(***************************************************************************)
(* unnamed/part_002 (the two tiers of the media cache) and the media route *)
(* of routes/chatRoutes.js.  A request is one step up to its await of      *)
(* chatManager.downloadMedia and one step after it; the clock is           *)
(* Date.now(), counted from the start of the process.                      *)
(***************************************************************************)
MediaIds == {<<"M1">>, <<"M2">>}

\* what WhatsApp holds for a message: media.data is base64, in groups of four
MediaOf(k) ==
  IF k = <<"M1">>
  THEN [data |-> <<"TWFu", "aGk=">>, mimetype |-> "image/jpeg",
        filename |-> <<"my", " ", "photo.jpg">>]
  ELSE [data |-> <<"TWFu", "YQ==">>, mimetype |-> "audio/ogg",
        filename |-> <<"media_", "M2", ".", "ogg">>]

\* the bytes of one group of four base64 characters
Base64Group(g) ==
  CASE g = "TWFu" -> <<77, 97, 110>>
    [] g = "aGk=" -> <<104, 105>>
    [] g = "YQ==" -> <<97>>
    [] OTHER -> <<>>

\* Buffer.from(data, 'base64')
RECURSIVE BufferFromBase64(_)
BufferFromBase64(data) ==
  IF data = <<>> THEN <<>> ELSE Base64Group(Head(data)) \o BufferFromBase64(Tail(data))

\* filename || `media_${messageId}`
FilenameOr(filename, messageId) ==
  IF filename # <<>> THEN filename ELSE <<"media_">> \o messageId

\* { buffer, mimetype, filename } of the route, from what the downloader returned
CachedOf(media, messageId) ==
  [buffer |-> BufferFromBase64(media.data), mimetype |-> media.mimetype,
   filename |-> FilenameOr(media.filename, messageId)]

NoValue == [buffer |-> <<>>, mimetype |-> "", filename |-> <<>>]

\* a memGet that expires an entry as soon as its age has reached the TTL
memGetStrict(cache, k, t) ==
  IF ~MapHas(cache, k) THEN [hit |-> FALSE, value |-> NoValue, cache |-> cache]
  ELSE IF t - cache[k].ts >= TTL_MS
  THEN [hit |-> FALSE, value |-> NoValue, cache |-> MapDelete(cache, k)]
  ELSE [hit |-> TRUE, value |-> cache[k].value, cache |-> cache]

\* memGet(k) at Date.now() = t: what it returns and MEMORY_CACHE after it
memGet(cache, k, t) ==
  IF ~MapHas(cache, k) THEN [hit |-> FALSE, value |-> NoValue, cache |-> cache]
  ELSE IF t - cache[k].ts > TTL_MS
  THEN [hit |-> FALSE, value |-> NoValue, cache |-> MapDelete(cache, k)]
  ELSE [hit |-> TRUE, value |-> cache[k].value, cache |-> cache]

\* memSet(k, value) at Date.now() = t
memSet(cache, k, value, t) == MapSet(cache, k, [value |-> value, ts |-> t])

\* a diskLoad that finds nothing
diskLoadNothing(d, messageId, readable) == [hit |-> FALSE, value |-> NoValue]

\* diskLoad(messageId): null unless both files exist and can be read
diskLoad(d, messageId, readable) ==
  IF MapHas(d, messageId) /\ readable
  THEN [hit |-> TRUE,
        value |-> [buffer |-> d[messageId].buffer, mimetype |-> d[messageId].mimetype,
                   filename |-> FilenameOr(d[messageId].filename, messageId)]]
  ELSE [hit |-> FALSE, value |-> NoValue]

\* a diskSave that writes nothing
diskSaveNothing(d, messageId, buffer, mimetype, filename) == d

\* diskSave(messageId, buffer, mimetype, filename): both files written
diskSave(d, messageId, buffer, mimetype, filename) ==
  MapSet(d, messageId, [buffer |-> buffer, mimetype |-> mimetype, filename |-> filename])

\* one call the route makes, and how it ended
MediaStep(call, result) == [call |-> call, result |-> result]
\* diskLoad returned null: no entry, or one that could not be read
DiskMiss(d, k, readable) ==
  MediaStep("diskLoad", IF MapHas(d, k) /\ ~readable THEN "unreadable" ELSE "miss")

\* a route that asks neither tier
MediaLookupNone(cache, d, k, t, readable) ==
  [hit |-> FALSE, value |-> NoValue, cache |-> cache, tier |-> "none", trace |-> <<>>]

\* let cached = memGet(messageId); if (!cached) { diskLoad, memSet }
MediaLookup(cache, d, k, t, readable) ==
  LET mem == memGet(cache, k, t)
      dk == diskLoad(d, k, readable) IN
  IF mem.hit
  THEN [hit |-> TRUE, value |-> mem.value, cache |-> mem.cache, tier |-> "memory",
        trace |-> <<MediaStep("memGet", "hit")>>]
  ELSE IF dk.hit
  THEN [hit |-> TRUE, value |-> dk.value, cache |-> memSet(mem.cache, k, dk.value, t),
        tier |-> "disk",
        trace |-> <<MediaStep("memGet", "miss"), MediaStep("diskLoad", "hit"),
                    MediaStep("memSet", "done")>>]
  ELSE [hit |-> FALSE, value |-> NoValue, cache |-> mem.cache, tier |-> "none",
        trace |-> <<MediaStep("memGet", "miss"), DiskMiss(d, k, readable)>>]

\* res.status(status).json({ error })
JsonError(status, message) ==
  [status |-> status, headers |-> EmptyMap, body |-> <<>>, ended |-> TRUE,
   json |-> [error |-> message]]

MediaRanges == {NoHeader, Header(<<"bytes=", "1", "-", "2">>)}
NoMediaRequest ==
  [id |-> 0, messageId |-> <<>>, range |-> NoHeader, permitted |-> FALSE, tier |-> "none",
   res |-> NoResponse, trace |-> <<>>, at |-> 0]
\* a request, what was written to res, the calls of the step in order, and
\* Date.now() of the step
MediaCall(id, k, range, permitted, tier, res, trace) ==
  [id |-> id, messageId |-> k, range |-> range, permitted |-> permitted, tier |-> tier,
   res |-> res, trace |-> trace, at |-> now]

\* return sendBufferWithRange(res, buffer, mimetype, filename, req.headers.range);
\* served remembers what was sent and the timestamp of the entry it left in
\* MEMORY_CACHE
MediaRespond(id, k, range, value, tier, trace) ==
  /\ mediaLast' = MediaCall(id, k, range, TRUE, tier,
                            sendBufferWithRange(value.buffer, value.mimetype, value.filename,
                                                range),
                            Append(trace, MediaStep("sendBufferWithRange", "done")))
  /\ served' = MapSet(served, k, [value |-> value, since |-> memCache'[k].ts])

\* GET /sessions/:accountId/:label/media/:messageId, from the answer of
\* assertSessionPermission to the call of the downloader
MediaRequest(k, permitted, range, readable) ==
  LET id == nMediaReqs + 1
      found == MediaLookup(memCache, disk, k, now, readable) IN
  /\ nMediaReqs' = id
  /\ IF ~permitted
     THEN /\ mediaLast' = MediaCall(id, k, range, FALSE, "none",
                                    JsonError(403, "Missing permission: viewMessages"), <<>>)
          /\ UNCHANGED <<memCache, mediaPending, nDownloads, served>>
     ELSE /\ memCache' = found.cache
          /\ IF found.hit
             THEN /\ MediaRespond(id, k, range, found.value, found.tier, found.trace)
                  /\ UNCHANGED <<mediaPending, nDownloads>>
             ELSE /\ mediaPending' = MapSet(mediaPending, id, [messageId |-> k, range |-> range])
                  /\ nDownloads' = [nDownloads EXCEPT ![k] = @ + 1]
                  /\ mediaLast' = MediaCall(id, k, range, TRUE, "none", NoResponse,
                                            Append(found.trace,
                                                   MediaStep("downloadMedia", "called")))
                  /\ UNCHANGED served
  /\ UNCHANGED <<disk, now, nTicks, sessVars, busVars, restoreVars, faultVars, wsVars, rangeVars, dlVars>>

\* what chatManager.downloadMedia returns for the message: its filename is
\* message.body, the caption, which the sender can have edited since an
\* earlier download
DownloadedMedia(k, result) ==
  IF result = "edited"
  THEN [MediaOf(k) EXCEPT !.filename = <<"new", " ", "caption">>]
  ELSE MediaOf(k)

\* the rest of the route, once chatManager.downloadMedia has returned the
\* media (as it was, or with an edited caption) or thrown.  A diskSave that throws leaves the disk as diskLoad saw
\* it before: a .bin without its .json is no entry.
MediaDownloaded(id, result, saveOk, readable) ==
  LET k == mediaPending[id].messageId
      range == mediaPending[id].range
      value == CachedOf(DownloadedMedia(k, result), k)
      dk == diskLoad(disk, k, readable)
      afterTry == IF result # "throw" THEN memSet(memCache, k, value, now) ELSE memCache
      tried == IF result # "throw"
               THEN <<MediaStep("downloadMedia", "media"), MediaStep("memSet", "done"),
                      MediaStep("diskSave", IF saveOk THEN "done" ELSE "throw")>>
               ELSE <<MediaStep("downloadMedia", "throw")>> IN
  /\ MapHas(mediaPending, id)
  /\ mediaPending' = MapDelete(mediaPending, id)
  /\ IF result # "throw" /\ saveOk
     THEN /\ memCache' = afterTry
          /\ disk' = diskSave(disk, k, value.buffer, value.mimetype, value.filename)
          /\ MediaRespond(id, k, range, value, "download", tried)
     ELSE \* catch (e)
          /\ disk' = disk
          /\ IF dk.hit
             THEN /\ memCache' = memSet(afterTry, k, dk.value, now)
                  /\ MediaRespond(id, k, range, dk.value, "fallback",
                                  tried \o <<MediaStep("diskLoad", "hit"),
                                             MediaStep("memSet", "done")>>)
             ELSE /\ memCache' = afterTry
                  /\ mediaLast' = MediaCall(id, k, range, TRUE, "none",
                       JsonError(410, "Media not available from WhatsApp (expired or not in recent history)."),
                       Append(tried, DiskMiss(disk, k, readable)))
                  /\ UNCHANGED served
  /\ UNCHANGED <<now, nTicks, nMediaReqs, nDownloads, sessVars, busVars, restoreVars, faultVars, wsVars,
                 rangeVars, dlVars>>

\* time passes
Tick(d) ==
  /\ now' = now + d
  /\ nTicks' = nTicks + 1
  /\ UNCHANGED <<memCache, disk, mediaPending, nMediaReqs, mediaLast, nDownloads, served,
                 sessVars, busVars, restoreVars, faultVars, wsVars, rangeVars, dlVars>>

\* the route with its :accountId and :label.  chatManager.downloadMedia
\* looks the client up under their key when it is called, and throws when
\* there is none.
TenantMediaRequest(p, k, permitted) ==
  /\ MediaRequest(k, permitted, NoHeader, TRUE)
  /\ reqBy' = MapSet(reqBy, nMediaReqs + 1,
                     [accountId |-> p.accountId, label |-> p.label,
                      registered |-> MapHas(clients, keyOf(p.accountId, p.label))])
  /\ UNCHANGED origin

\* the rest of the route for a disk that can be written and read
TenantMediaDownloaded(id, result) ==
  /\ MapHas(mediaPending, id)
  /\ result # "throw" => reqBy[id].registered
  /\ MediaDownloaded(id, result, TRUE, TRUE)
  /\ origin' = IF result # "throw"
               THEN MapSet(origin, mediaPending[id].messageId,
                           [accountId |-> reqBy[id].accountId, label |-> reqBy[id].label])
               ELSE origin
  /\ UNCHANGED reqBy

MediaIdle ==
  /\ memCache = EmptyMap
  /\ disk = EmptyMap
  /\ now = 0
  /\ nTicks = 0
  /\ mediaPending = EmptyMap
  /\ nMediaReqs = 0
  /\ mediaLast = NoMediaRequest
  /\ nDownloads = [k \in MediaIds |-> 0]
  /\ served = EmptyMap

(***************************************************************************)
(* SessionManager.autoRestoreAllSessions: one call.  The loop runs from    *)
(* one await of initSession to the next without giving way, so while the   *)
(* call is at "loop" nothing else takes a step.                            *)
(***************************************************************************)
\* the directories a listing can show, in the order of their names
ListedDirs ==
  <<<<"other">>,
    <<"session-", "a1", "__", "l1">>,
    <<"session-", "a1", "__", "l1", "__", "x">>,
    <<"session-", "a1", "__", "l2">>,
    <<"session-", "a1", "__", "l3">>,
    <<"session-", "a2", "__", "l1">>,
    <<"session-", "a2", "__", "l2">>,
    <<"session-", "a2", "__", "l3">>,
    <<"session-", "old">>>>
Reverse(seq) == [i \in 1..Len(seq) |-> seq[Len(seq) + 1 - i]]
\* fs.readdirSync promises no order: the model takes that of the names and
\* its reverse
ListingOrders == {ListedDirs, Reverse(ListedDirs)}

IsSessionDir(d) ==
  /\ Len(d) >= 1
  /\ Head(d) = "session-"
  /\ parseSessionDir(d).accountId # <<>>
  /\ parseSessionDir(d).label # <<>>

\* detectSessions() on the listing items: the entries it pushes, in order
DetectedIn(items) ==
  LET kept == SelectSeq(items, LAMBDA d : d \in dirs /\ IsSessionDir(d)) IN
  [i \in 1..Len(kept) |->
     [directory |-> kept[i],
      accountId |-> parseSessionDir(kept[i]).accountId,
      label |-> parseSessionDir(kept[i]).label,
      active |-> MapHas(clients, keyOf(parseSessionDir(kept[i]).accountId,
                                       parseSessionDir(kept[i]).label))]]

ResultOf(session, status) ==
  [accountId |-> session.accountId, label |-> session.label, status |-> status]

\* a catch that records nothing
RestoreCaughtDropped(results, session, message) == results

\* catch (error) { results.push({ ..., status: 'error', error: error.message }) }
RestoreCaught(results, session, message) ==
  Append(results, [accountId |-> session.accountId, label |-> session.label,
                   status |-> "error", error |-> message])

NoRestoreReturn == [restored |-> 0, total |-> 0, results |-> <<>>]
\* exists: what the initSession that returned said of the key
NotCalled == [called |-> FALSE, outcome |-> "", error |-> "", exists |-> FALSE]
Called(outcome, error, exists) ==
  [called |-> TRUE, outcome |-> outcome, error |-> error, exists |-> exists]

\* the end of the loop body: the next entry, or the return after the last
RestoreAdvance(results, restored, log) ==
  /\ rsResults' = results
  /\ rsRestored' = restored
  /\ rsLog' = log
  /\ rsIdx' = rsIdx + 1
  /\ IF rsIdx < Len(rsDetected)
     THEN rsPc' = "loop" /\ UNCHANGED rsReturn
     ELSE /\ rsPc' = "returned"
          /\ rsReturn' = [restored |-> restored, total |-> Len(rsDetected),
                          results |-> results]
  /\ UNCHANGED rsDetected

\* the call of initSession for the entry has returned or thrown (lastCall')
RestoreSettled ==
  LET session == rsDetected[rsIdx] IN
  IF lastCall'.outcome = "return"
  THEN RestoreAdvance(Append(rsResults, ResultOf(session, "restored")), rsRestored + 1,
                      Append(rsLog, Called("return", "", lastCall'.ret.exists)))
  ELSE RestoreAdvance(RestoreCaught(rsResults, session, lastCall'.error), rsRestored,
                      Append(rsLog, Called("throw", lastCall'.error, FALSE)))

\* const detectedSessions = this.detectSessions(); listOk: readdirSync did
\* not throw
RestoreBegin(order, listOk) ==
  LET detected == IF listOk THEN DetectedIn(order) ELSE <<>> IN
  /\ rsPc = "idle"
  /\ rsDetected' = detected
  /\ rsIdx' = 1
  /\ rsResults' = <<>>
  /\ rsRestored' = 0
  /\ rsLog' = <<>>
  /\ IF detected = <<>>
     THEN rsPc' = "returned" /\ rsReturn' = NoRestoreReturn
     ELSE rsPc' = "loop" /\ UNCHANGED rsReturn
  /\ emitted' = <<>>
  /\ UNCHANGED <<sessVars, listeners, connected, nSockets, pureVars>>

\* one entry of the loop, up to the await of a client.initialize()
RestoreEntry ==
  LET session == rsDetected[rsIdx] IN
  /\ rsPc = "loop"
  /\ IF session.active
     THEN /\ RestoreAdvance(Append(rsResults, ResultOf(session, "already_active")),
                            rsRestored, Append(rsLog, NotCalled))
          /\ emitted' = <<>>
          /\ UNCHANGED <<sessVars, listeners, connected, nSockets, pureVars>>
     ELSE /\ InitSession(session.accountId, session.label)
          /\ IF lastCall'.outcome = "awaiting"
             THEN /\ rsPc' = "await"
                  /\ UNCHANGED <<rsDetected, rsIdx, rsResults, rsRestored, rsReturn, rsLog>>
             ELSE RestoreSettled

\* the client whose initialize() the call awaits
RestoreAwaits(ref) ==
  /\ rsPc = "await"
  /\ ref.at = "clients"
  /\ ref.key = keyOf(rsDetected[rsIdx].accountId, rsDetected[rsIdx].label)

\* initSession resumes, and with it the loop if it was the loop that called
RestoreInitializeResolved(ref) ==
  /\ rsPc # "loop"
  /\ InitializeResolved(ref)
  /\ IF RestoreAwaits(ref) THEN RestoreSettled ELSE UNCHANGED restoreVars

RestoreInitializeRejected(ref, browserUp) ==
  /\ rsPc # "loop"
  /\ InitializeRejected(ref, browserUp)
  /\ IF RestoreAwaits(ref) THEN RestoreSettled ELSE UNCHANGED restoreVars

RestoreIdle ==
  /\ rsPc = "idle"
  /\ rsDetected = <<>>
  /\ rsIdx = 1
  /\ rsResults = <<>>
  /\ rsRestored = 0
  /\ rsReturn = NoRestoreReturn
  /\ rsLog = <<>>

(***************************************************************************)
(* src/server.js: the registry of the WebSocket variant.  createSession    *)
(* tests the registry, awaits client.initialize() and only then writes     *)
(* sessions[sessionId].                                                    *)
(***************************************************************************)
WsIds == {<<"s" \o ToString(i)>> : i \in 1..WsNumIds}
TenantIdle == reqBy = EmptyMap /\ origin = EmptyMap

WsIdle ==
  /\ sessions = {}
  /\ creating = [id \in WsIds |-> 0]
  /\ wsLast = [op |-> "none"]
NumCreating == LET RECURSIVE Sum(_)
                   Sum(S) == IF S = {} THEN 0
                             ELSE LET x == CHOOSE x \in S : TRUE IN creating[x] + Sum(S \ {x})
               IN Sum(WsIds)

\* createSession up to the await of client.initialize(): the two tests, the
\* client and its listeners
CreateSessionBegin(sessionId) ==
  /\ IF Cardinality(sessions) >= MAX_SESSIONS
     THEN /\ wsLast' = [op |-> "createSession", id |-> sessionId, outcome |-> "throw",
                        error |-> "Maximum number of sessions reached"]
          /\ UNCHANGED creating
     ELSE IF sessionId \in sessions
     THEN /\ wsLast' = [op |-> "createSession", id |-> sessionId, outcome |-> "throw",
                        error |-> "already exists"]
          /\ UNCHANGED creating
     ELSE /\ wsLast' = [op |-> "createSession", id |-> sessionId, outcome |-> "awaiting"]
          /\ creating' = [creating EXCEPT ![sessionId] = @ + 1]
  /\ UNCHANGED <<sessions, sessVars, busVars, restoreVars, rangeVars, dlVars, mediaVars, tenantVars, faultVars>>

\* client.initialize() resolved: sessions[sessionId] = session; return
CreateSessionInitialized(sessionId) ==
  /\ creating[sessionId] > 0
  /\ creating' = [creating EXCEPT ![sessionId] = @ - 1]
  /\ sessions' = sessions \cup {sessionId}
  /\ wsLast' = [op |-> "createSession", id |-> sessionId, outcome |-> "return"]
  /\ UNCHANGED <<sessVars, busVars, restoreVars, rangeVars, dlVars, mediaVars, tenantVars, faultVars>>

\* client.initialize() rejected: the call throws, nothing was written
CreateSessionRejected(sessionId) ==
  /\ creating[sessionId] > 0
  /\ creating' = [creating EXCEPT ![sessionId] = @ - 1]
  /\ wsLast' = [op |-> "createSession", id |-> sessionId, outcome |-> "throw",
                error |-> "initialize failed"]
  /\ UNCHANGED <<sessions, sessVars, busVars, restoreVars, rangeVars, dlVars, mediaVars, tenantVars, faultVars>>

\* destroySession(sessionId) of src/server.js, from the answer of
\* client.destroy() on
WsDestroySession(sessionId) ==
  /\ IF sessionId \in sessions
     THEN /\ sessions' = sessions \ {sessionId}
          /\ wsLast' = [op |-> "destroySession", id |-> sessionId, outcome |-> "return"]
     ELSE /\ wsLast' = [op |-> "destroySession", id |-> sessionId, outcome |-> "throw",
                        error |-> "does not exist"]
          /\ UNCHANGED sessions
  /\ UNCHANGED <<creating, sessVars, busVars, restoreVars, rangeVars, dlVars, mediaVars, tenantVars, faultVars>>

(***************************************************************************)
(* The session registry and its subscribers.                               *)
(***************************************************************************)
InitRegistry ==
  /\ clients = EmptyMap
  /\ states = EmptyMap
  /\ qrs = EmptyMap
  /\ selfIds = EmptyMap
  /\ stale = EmptyBag
  /\ dirs = {}
  /\ listeners = <<>>
  /\ connected = {}
  /\ nSockets = 0
  /\ emitted = <<>>
  /\ lastCall = [op |-> "constructor"]
  /\ nEvents = 0
  /\ nDestroys = 0
  /\ destroyed = {}
  /\ broken = {}
  /\ WsIdle
  /\ TenantIdle

Init == InitRegistry /\ RangeIdle /\ DlIdle /\ MediaIdle /\ RestoreIdle

\* The callers and the clients of the registry, within the bounds: a few
\* pairs, a busy environment.
Next ==
  \/ \E p \in FewPairs : /\ InitSession(p.accountId, p.label)
                          /\ NumClients' <= MaxClients
                          /\ UNCHANGED restoreVars
  \/ \E ref \in ClientRefs : InitializeResolved(ref) /\ UNCHANGED restoreVars
  \/ \E ref \in ClientRefs, browserUp \in BOOLEAN :
       InitializeRejected(ref, browserUp) /\ UNCHANGED restoreVars
  \/ nEvents < MaxEvents /\ \E ref \in ClientRefs, e \in ClientEvents :
       ClientEvent(ref, e) /\ UNCHANGED restoreVars
  \/ nDestroys < MaxDestroys /\ \E p \in FewPairs, rmOk \in BOOLEAN :
       DestroySessionAbsent(p.accountId, p.label, rmOk) /\ UNCHANGED restoreVars
  \/ nDestroys < MaxDestroys /\ \E p \in FewPairs :
       DestroySessionBegin(p.accountId, p.label) /\ UNCHANGED restoreVars
  \/ \E ref \in ClientRefs, destroyOk \in BOOLEAN, rmOk \in BOOLEAN :
       DestroySessionFinish(ref, destroyOk, rmOk) /\ UNCHANGED restoreVars

Spec == Init /\ [][Next]_vars

\* The same registry with every pair callable and a quiet environment.
QuietEvents == {e \in ClientEvents : e.name \in {"qr", "disconnected"}}
NextCapacity ==
  \/ \E p \in CallablePairs : /\ InitSession(p.accountId, p.label)
                               /\ NumClients' <= CapClients
                               /\ NumPending' <= CapPending
                               /\ UNCHANGED restoreVars
  \/ \E ref \in ClientRefs : InitializeResolved(ref) /\ UNCHANGED restoreVars
  \/ \E ref \in ClientRefs : InitializeRejected(ref, FALSE) /\ UNCHANGED restoreVars
  \/ nEvents < CapEvents /\ \E ref \in ClientRefs, e \in QuietEvents :
       ClientEvent(ref, e) /\ UNCHANGED restoreVars
  \/ nDestroys < CapDestroys /\ \E p \in CallablePairs :
       DestroySessionAbsent(p.accountId, p.label, TRUE) /\ UNCHANGED restoreVars
  \/ nDestroys < CapDestroys /\ \E p \in CallablePairs :
       DestroySessionBegin(p.accountId, p.label) /\ UNCHANGED restoreVars
  \/ \E ref \in ClientRefs : DestroySessionFinish(ref, TRUE, TRUE) /\ UNCHANGED restoreVars

SpecCapacity == Init /\ [][NextCapacity]_vars

\* One pair and the sockets that subscribe to the registry's events.
OnePair == {PairAt(1)}
NextBus ==
  \/ \E p \in OnePair : /\ InitSession(p.accountId, p.label)
                         /\ NumClients' <= BusClients
                         /\ UNCHANGED restoreVars
  \/ \E ref \in ClientRefs : InitializeResolved(ref) /\ UNCHANGED restoreVars
  \/ \E ref \in ClientRefs, browserUp \in BOOLEAN :
       InitializeRejected(ref, browserUp) /\ UNCHANGED restoreVars
  \/ nEvents < BusEvents /\ \E ref \in ClientRefs, e \in ClientEvents :
       ClientEvent(ref, e) /\ UNCHANGED restoreVars
  \/ nDestroys < BusDestroys /\ \E p \in OnePair, rmOk \in BOOLEAN :
       DestroySessionAbsent(p.accountId, p.label, rmOk) /\ UNCHANGED restoreVars
  \/ nDestroys < BusDestroys /\ \E p \in OnePair :
       DestroySessionBegin(p.accountId, p.label) /\ UNCHANGED restoreVars
  \/ \E ref \in ClientRefs, destroyOk \in BOOLEAN, rmOk \in BOOLEAN :
       DestroySessionFinish(ref, destroyOk, rmOk) /\ UNCHANGED restoreVars
  \/ nSockets < MaxSockets /\ Connection /\ UNCHANGED restoreVars
  \/ \E s \in connected : Disconnect(s) /\ UNCHANGED restoreVars

SpecBus == Init /\ [][NextBus]_vars

(***************************************************************************)
(* Properties of the session registry.                                     *)
(***************************************************************************)
\* C1: after any interleaving of initSession, destroySession, client events
\* and initialize() completions or failures, clients never holds more than
\* MaxSessions entries; and an initSession for an unregistered key made while
\* clients holds MaxSessions entries throws the capacity error and leaves
\* clients, states, qrs and selfIds unchanged.
C1_CapacityBound ==
  /\ [](Cardinality(DOMAIN clients) <= MaxSessions)
  /\ [][(/\ lastCall'.op = "initSession"
         /\ lastCall'.stage = "call"
         /\ ~MapHas(clients, keyOf(lastCall'.accountId, lastCall'.label))
         /\ Cardinality(DOMAIN clients) >= MaxSessions)
        => (/\ lastCall'.outcome = "throw"
            /\ lastCall'.error = CapacityError
            /\ UNCHANGED <<clients, states, qrs, selfIds>>)]_vars

\* an initSession has just been refused at the bound
C1_Refused ==
  /\ lastCall.op = "initSession"
  /\ lastCall.outcome = "throw"
  /\ lastCall.error = CapacityError
  /\ Cardinality(DOMAIN clients) = MaxSessions

\* C2: initSession for a key that is registered (its first call may still
\* await initialize()) creates no client, changes no Map and no directory,
\* and returns the key's current status and hasQr with exists = TRUE.
C2_InitIdempotent ==
  [][(/\ lastCall'.op = "initSession"
      /\ lastCall'.stage = "call"
      /\ MapHas(clients, keyOf(lastCall'.accountId, lastCall'.label)))
     => (/\ UNCHANGED <<clients, states, qrs, selfIds, stale, dirs>>
         /\ lastCall'.outcome = "return"
         /\ lastCall'.ret =
              [accountId |-> lastCall'.accountId,
               label |-> lastCall'.label,
               status |-> getSessionStatus(lastCall'.accountId, lastCall'.label).status,
               exists |-> TRUE,
               hasQr |-> getSessionStatus(lastCall'.accountId, lastCall'.label).hasQr])]_vars

\* a second initSession has returned while the first still awaits initialize()
C2_SecondCallWhilePending ==
  /\ lastCall.op = "initSession"
  /\ lastCall.stage = "call"
  /\ lastCall.outcome = "return"
  /\ lastCall.ret.exists
  /\ MapHas(clients, keyOf(lastCall.accountId, lastCall.label))
  /\ clients[keyOf(lastCall.accountId, lastCall.label)].init = "pending"

\* C3: once destroySession(t,l) has completed, and until the next
\* initSession(t,l), getSessionStatus(t,l) reports not_found and
\* detectSessions() lists no active entry for (t,l).
C3_NotFoundAfterDestroy ==
  \A p \in destroyed :
    /\ getSessionStatus(p.accountId, p.label).status = "not_found"
    /\ \A s \in detectSessions :
         (s.accountId = p.accountId /\ s.label = p.label) => ~s.active

C10_FanOut ==
  \A i \in 1..Len(emitted) : \A s \in connected :
    LET e == emitted[i]
        d == e.data
        SentOn(ch) == \E j \in 1..Len(Sent) : Sent[j].socket = s /\ Sent[j].channel = ch
    IN /\ SentOn(<<e.name>>)
       /\ SentOn(Channel(e.name, d.accountId, d.label))
       /\ e.name = "message" =>
            LET chatId == IF d.message.fromMe THEN d.message.to ELSE d.message.from IN
            \E prefix \in {"message", "chat_message"} :
              SentOn(Channel(prefix, d.accountId, d.label) \o <<":", chatId>>)

\* C12: the step that connects a socket sends it one sessions_list with
\* exactly one entry for every registered key, carrying the status the
\* registry holds for the key and whether it holds a qr for it, and sends it
\* none of the registry events emitted before.
C12_SnapshotNoReplay ==
  lastCall.op = "connection" =>
    /\ Cardinality(lastCall.sessions_list) = Cardinality(DOMAIN clients)
    /\ \A key \in DOMAIN clients :
         \E entry \in lastCall.sessions_list :
           /\ keyOf(entry.accountId, entry.label) = key
           /\ entry.status = IF MapHas(states, key) THEN states[key] ELSE "unknown"
           /\ entry.hasQr = MapHas(qrs, key)
    /\ \A j \in 1..Len(Sent) : Sent[j].socket # lastCall.socket

\* C12 witness: a socket has connected after the client's qr event was
\* emitted to an earlier socket; its snapshot shows the session scanning with
\* a qr.
C12_ConnectedAfterQr ==
  /\ lastCall.op = "connection"
  /\ lastCall.socket >= 2
  /\ nEvents >= 1
  /\ \E entry \in lastCall.sessions_list : entry.status = "scanning" /\ entry.hasQr

(***************************************************************************)
(* sendBufferWithRange, called once on each buffer and header.             *)
(***************************************************************************)
InitRange ==
  /\ InitRegistry
  /\ rangeReq \in RangeRequests
  /\ rangeRes = NoResponse
  /\ DlIdle
  /\ MediaIdle
  /\ RestoreIdle

SpecRange == InitRange /\ [][SendBufferWithRange]_vars

\* C6: for a header bytes=<start>-<end> with both bounds given, start <= end
\* and start < buffer length, the answer is 206 with the bytes
\* buffer[start..e], e = min(end, length - 1), Content-Range
\* "bytes start-e/length" and Content-Length e - start + 1.
C6_PartialContent ==
  LET v == rangeReq.range.value
      buffer == rangeReq.buffer
      dash == CHOOSE k \in 1..(Len(v) + 1) :
                /\ k <= Len(v) => v[k] = "-"
                /\ \A j \in 1..(k - 1) : v[j] # "-"
      a == SubSeq(v, 2, dash - 1)
      b == SubSeq(v, dash + 1, Len(v))
      valid == /\ rangeReq.range.present
               /\ Len(v) >= 4
               /\ v[1] = "bytes="
               /\ a # <<>> /\ \A i \in 1..Len(a) : IsDigit(a[i])
               /\ b # <<>> /\ \A i \in 1..Len(b) : IsDigit(b[i])
  IN (rangeRes.ended /\ valid /\ ParseInt(a) <= ParseInt(b) /\ ParseInt(a) < Len(buffer))
     => LET start == ParseInt(a)
            e == Min(ParseInt(b), Len(buffer) - 1) IN
        /\ rangeRes.status = 206
        /\ rangeRes.body = [i \in 1..(e - start + 1) |-> buffer[start + i]]
        /\ rangeRes.headers["Content-Range"] =
             <<"bytes ">> \o StringOf(start) \o <<"-">> \o StringOf(e)
               \o <<"/">> \o StringOf(Len(buffer))
        /\ rangeRes.headers["Content-Length"] = StringOf(e - start + 1)

\* bytes=10-14 on a buffer of 15 bytes was answered with 5 bytes
C6_TenToFourteen ==
  /\ rangeRes.ended
  /\ rangeReq.range = Header(<<"bytes=", "1", "0", "-", "1", "4">>)
  /\ Len(rangeReq.buffer) = 15
  /\ rangeRes.status = 206
  /\ rangeRes.body = <<11, 12, 13, 14, 15>>
  /\ rangeRes.headers["Content-Range"] = <<"bytes ", "1", "0", "-", "1", "4", "/", "1", "5">>

\* C7: the answer is 416, with no body, exactly when a Range header is
\* present and it is not of the form bytes=<digits>-<digits>, or start > end
\* after clamping, or start >= buffer length; every request with a Range
\* header against an empty buffer is answered 416.
C7_NotSatisfiable ==
  LET m == RangeExec(rangeReq.range.value)
      size == Len(rangeReq.buffer)
      start == RangeStart(m.m1)
      end == RangeEnd(m.m2, size) IN
  rangeRes.ended =>
    /\ rangeRes.status = 416 <=>
         (rangeReq.range.present /\ (~m.matched \/ start > end \/ start >= size))
    /\ rangeRes.status = 416 => rangeRes.body = <<>>
    /\ (rangeReq.range.present /\ size = 0) => rangeRes.status = 416

(***************************************************************************)
(* downloadMedia, called once for each message id and place of the message.*)
(***************************************************************************)
InitDownload ==
  /\ InitRegistry
  /\ RangeIdle
  /\ dlReq \in DlRequests
  /\ dlPc = "start"
  /\ dlAt = DlStartAt
  /\ dlLog = <<>>
  /\ dlOut = [outcome |-> "none"]
  /\ MediaIdle
  /\ RestoreIdle

\* Math.floor(Math.random() * 150): the least and the greatest
Jitters == {0, JitterMs - 1}

NextDownload ==
  \/ DlBegin
  \/ \E result \in {"found", "null", "throw"} : DlDirect(result)
  \/ \E ok \in BOOLEAN : DlGetChat(ok)
  \/ \E ok \in BOOLEAN : DlFetchWindow(ok)
  \/ \E ok \in BOOLEAN : DlGetChats(ok)
  \/ \E ok \in BOOLEAN : DlScan(ok)
  \/ \E result \in {"data", "empty", "throw"}, jitter \in Jitters : DlAttempt(result, jitter)

SpecDownload == InitDownload /\ [][NextDownload]_vars

MediaDisks ==
  {EmptyMap,
   diskSave(EmptyMap, <<"M1">>, CachedOf(MediaOf(<<"M1">>), <<"M1">>).buffer,
            CachedOf(MediaOf(<<"M1">>), <<"M1">>).mimetype,
            CachedOf(MediaOf(<<"M1">>), <<"M1">>).filename)}

InitMedia ==
  /\ InitRegistry
  /\ RangeIdle
  /\ DlIdle
  /\ memCache = EmptyMap
  /\ disk \in MediaDisks
  /\ now = 0
  /\ nTicks = 0
  /\ mediaPending = EmptyMap
  /\ nMediaReqs = 0
  /\ mediaLast = NoMediaRequest
  /\ nDownloads = [k \in MediaIds |-> 0]
  /\ served = EmptyMap
  /\ RestoreIdle

\* the clock advances by a millisecond or by one short of the TTL
Ticks == {1, TTL_MS - 1}

NextMedia ==
  \/ nMediaReqs < MaxMediaReqs
       /\ \E k \in MediaIds, permitted \in BOOLEAN, range \in MediaRanges, readable \in BOOLEAN :
            MediaRequest(k, permitted, range, readable) /\ UNCHANGED tenantVars
  \/ \E id \in DOMAIN mediaPending, result \in {"media", "throw"},
        saveOk \in BOOLEAN, readable \in BOOLEAN :
       MediaDownloaded(id, result, saveOk, readable) /\ UNCHANGED tenantVars
  \/ nTicks < MaxTicks /\ \E d \in Ticks : Tick(d) /\ UNCHANGED tenantVars

SpecMedia == InitMedia /\ [][NextMedia]_vars

\* C5: once the route has served message id k, a permitted request for k
\* that arrives less than TTL_MS after the volatile entry of that serve was
\* written is answered in the same step with what sendBufferWithRange makes
\* of the very bytes (and type and name) served before, and
\* chatManager.downloadMedia is not called.
C5_ServedFromCache ==
  [][\A k \in MediaIds :
       (/\ MapHas(served, k)
        /\ now - served[k].since < TTL_MS
        /\ nMediaReqs' = nMediaReqs + 1
        /\ mediaLast'.messageId = k
        /\ mediaLast'.permitted)
       => (/\ mediaLast'.res.ended
           /\ mediaLast'.res = sendBufferWithRange(served[k].value.buffer,
                                                   served[k].value.mimetype,
                                                   served[k].value.filename,
                                                   mediaLast'.range)
           /\ nDownloads' = nDownloads
           /\ mediaPending' = mediaPending)]_vars

\* C5 witness: M2 was downloaded once and served; one millisecond short of
\* the TTL later a second request for it has been answered 200 from memory
\* with the decoded bytes, still after one download.
C5_ServedAgain ==
  /\ mediaLast.id >= 2
  /\ mediaLast.messageId = <<"M2">>
  /\ mediaLast.tier = "memory"
  /\ mediaLast.res.status = 200
  /\ mediaLast.res.body = <<77, 97, 110, 97>>
  /\ nDownloads[<<"M2">>] = 1
  /\ MapHas(memCache, <<"M2">>)
  /\ now - memCache[<<"M2">>].ts = TTL_MS - 1

(***************************************************************************)
(* autoRestoreAllSessions, called once over the directories an earlier run *)
(* left, among other callers of initSession.                               *)
(***************************************************************************)
RestoreDirSets ==
  {{},
   {ListedDirs[1]},
   {ListedDirs[2], ListedDirs[3]},
   {ListedDirs[1], ListedDirs[2], ListedDirs[4], ListedDirs[9]},
   {ListedDirs[i] : i \in {2, 4, 5, 6, 7, 8}}}

InitRestore ==
  /\ clients = EmptyMap
  /\ states = EmptyMap
  /\ qrs = EmptyMap
  /\ selfIds = EmptyMap
  /\ stale = EmptyBag
  /\ dirs \in RestoreDirSets
  /\ listeners = <<>>
  /\ connected = {}
  /\ nSockets = 0
  /\ emitted = <<>>
  /\ lastCall = [op |-> "constructor"]
  /\ nEvents = 0
  /\ nDestroys = 0
  /\ destroyed = {}
  /\ broken = {}
  /\ WsIdle
  /\ TenantIdle
  /\ RangeIdle
  /\ DlIdle
  /\ MediaIdle
  /\ RestoreIdle

\* the call, the initialize() of the clients, and what goes on around the
\* call: another caller of initSession, events of the clients
NextRestore ==
  \/ \E order \in ListingOrders, listOk \in BOOLEAN : RestoreBegin(order, listOk)
  \/ RestoreEntry
  \/ \E ref \in ClientRefs : RestoreInitializeResolved(ref)
  \/ \E ref \in ClientRefs, browserUp \in BOOLEAN : RestoreInitializeRejected(ref, browserUp)
  \/ rsPc \in {"idle", "await"} /\ \E p \in OnePair :
       /\ InitSession(p.accountId, p.label)
       /\ NumClients' <= RsClients
       /\ UNCHANGED restoreVars
  \/ rsPc # "loop" /\ nEvents < RsEvents /\ \E ref \in ClientRefs, e \in QuietEvents :
       ClientEvent(ref, e) /\ UNCHANGED restoreVars

SpecRestore == InitRestore /\ [][NextRestore]_vars

\* C8: when autoRestoreAllSessions has returned, total is the number of
\* detected sessions and results has exactly one entry per detected session,
\* in order and for its pair: already_active, without a call of initSession,
\* for an entry detected as active; restored for an entry whose initSession
\* returned; error with the message for an entry whose initSession threw;
\* and restored counts the entries whose status is restored.
C8_EveryEntryProcessed ==
  rsPc = "returned" =>
    /\ rsReturn.total = Len(rsDetected)
    /\ Len(rsReturn.results) = Len(rsDetected)
    /\ Len(rsLog) = Len(rsDetected)
    /\ \A i \in 1..Len(rsDetected) :
         LET session == rsDetected[i]
             result == rsReturn.results[i]
             call == rsLog[i] IN
         /\ result.accountId = session.accountId
         /\ result.label = session.label
         /\ session.active => (result.status = "already_active" /\ ~call.called)
         /\ ~session.active =>
              /\ call.called
              /\ call.outcome = "return" => result.status = "restored"
              /\ call.outcome = "throw" =>
                   (result.status = "error" /\ result.error = call.error)
    /\ rsReturn.restored =
         Cardinality({i \in 1..Len(rsDetected) : rsReturn.results[i].status = "restored"})

\* C8 witness: the call has returned three results or more, among them an
\* already_active one, and an error that is followed by a restored one.
C8_RestoredAfterError ==
  /\ rsPc = "returned"
  /\ rsReturn.total >= 3
  /\ \E i \in 1..Len(rsReturn.results) : rsReturn.results[i].status = "already_active"
  /\ \E i \in 1..Len(rsReturn.results), j \in 1..Len(rsReturn.results) :
       /\ i < j
       /\ rsReturn.results[i].status = "error"
       /\ rsReturn.results[j].status = "restored"

(***************************************************************************)
(* The fan-out when the emit of a socket throws.                           *)
(***************************************************************************)
NextFault ==
  \/ \E p \in OnePair : /\ InitSession(p.accountId, p.label)
                         /\ NumClients' <= FaultClients
                         /\ UNCHANGED restoreVars
  \/ \E ref \in ClientRefs : InitializeResolved(ref) /\ UNCHANGED restoreVars
  \/ nEvents < FaultEvents /\ \E ref \in ClientRefs, e \in ClientEvents :
       ClientEvent(ref, e) /\ UNCHANGED restoreVars
  \/ nDestroys < FaultDestroys /\ \E p \in OnePair, rmOk \in BOOLEAN :
       DestroySessionAbsent(p.accountId, p.label, rmOk) /\ UNCHANGED restoreVars
  \/ nDestroys < FaultDestroys /\ \E p \in OnePair :
       DestroySessionBegin(p.accountId, p.label) /\ UNCHANGED restoreVars
  \/ \E ref \in ClientRefs, destroyOk \in BOOLEAN, rmOk \in BOOLEAN :
       DestroySessionFinish(ref, destroyOk, rmOk) /\ UNCHANGED restoreVars
  \/ nSockets < MaxSockets /\ Connection /\ UNCHANGED restoreVars
  \/ \E s \in connected : Disconnect(s) /\ UNCHANGED restoreVars
  \/ \E s \in connected : BreakSocket(s) /\ UNCHANGED restoreVars

SpecFault == Init /\ [][NextFault]_vars

\* C11: when the emit of one socket throws, every other connected socket is
\* still sent both copies of every event the handler emits in the step (the
\* status after the qr as well), and the handler of the client's event does
\* not end with the exception.
C11_SendFailureIsolated ==
  /\ \A i \in 1..Len(emitted) : \A s \in connected \ broken :
       LET e == emitted[i]
           SentOn(ch) == \E j \in 1..Len(Sent) : Sent[j].socket = s /\ Sent[j].channel = ch
       IN /\ SentOn(<<e.name>>)
          /\ SentOn(Channel(e.name, e.data.accountId, e.data.label))
  /\ lastCall.op = "clientEvent" => ~lastCall.threw

\* C13: a request asks the memory first, the disk only after the memory
\* missed, and calls the downloader only after both missed; what is served
\* from the disk has been put into the memory before it is sent; what is
\* served from a download has been put into the memory and saved to the disk
\* before it is sent.
C13_TierOrder ==
  /\ [](LET k == mediaLast.messageId
            t == mediaLast.trace
            Missed(step) == step.call = "diskLoad" /\ step.result \in {"miss", "unreadable"}
            send == MediaStep("sendBufferWithRange", "done")
            Sends(value) ==
              mediaLast.res = sendBufferWithRange(value.buffer, value.mimetype,
                                                  value.filename, mediaLast.range) IN
        /\ (t # <<>> /\ t[1].call = "memGet") =>
             \/ t = <<MediaStep("memGet", "hit"), send>>
             \/ t = <<MediaStep("memGet", "miss"), MediaStep("diskLoad", "hit"),
                      MediaStep("memSet", "done"), send>>
             \/ /\ Len(t) = 3
                /\ t[1] = MediaStep("memGet", "miss")
                /\ Missed(t[2])
                /\ t[3] = MediaStep("downloadMedia", "called")
        /\ mediaLast.tier = "disk" =>
             /\ MapHas(disk, k) /\ MapHas(memCache, k)
             /\ memCache[k].value.buffer = disk[k].buffer
             /\ Sends(memCache[k].value)
        /\ mediaLast.tier = "download" =>
             /\ t = <<MediaStep("downloadMedia", "media"), MediaStep("memSet", "done"),
                      MediaStep("diskSave", "done"), send>>
             /\ MapHas(disk, k) /\ MapHas(memCache, k)
             /\ memCache[k].value = CachedOf(MediaOf(k), k)
             /\ disk[k].buffer = BufferFromBase64(MediaOf(k).data)
             /\ Sends(memCache[k].value))
  /\ [][\A k \in MediaIds :
          nDownloads'[k] # nDownloads[k] =>
            /\ MapHas(memCache, k) => now - memCache[k].ts > TTL_MS
            /\ mediaLast'.messageId = k
            /\ Len(mediaLast'.trace) = 3
            /\ mediaLast'.trace[3] = MediaStep("downloadMedia", "called")]_vars

\* C13 witness: a message that was downloaded once has been served again from
\* the disk, after its entry in the memory had expired.
C13_PromotedFromDisk ==
  /\ mediaLast.tier = "disk"
  /\ mediaLast.messageId = <<"M2">>
  /\ nDownloads[<<"M2">>] = 1
  /\ mediaLast.res.status = 200

C15_AtMostFiveAttempts ==
  Len(SelectSeq(dlLog, LAMBDA e : e.call = "downloadMedia")) <= 5

\* C16: when the call has thrown after download attempts were made (all of
\* them failed), the error it throws carries the last download failure: the
\* transport error or the empty-result error, not the not-found error.
C16_LastFailureSurfaced ==
  (/\ dlPc = "thrown"
   /\ \E n \in 1..Len(dlLog) : dlLog[n].call = "downloadMedia")
  => /\ dlAt.lastErr \in {"transport error", EmptyResultError}
     /\ dlOut.error \in {dlAt.lastErr, Rewrapped(dlAt.lastErr)}

\* C17: when the call has ended, (1) if the direct lookup located nothing and
\* no chat id could be derived or the targeted scan missed or failed, all
\* chats were enumerated; (2) the global scan fetched the 50 most recent
\* messages of the chats in order, past the fetches that failed, and no
\* further chat after the first fetch that held the message; (3) if no stage
\* found the message the call threw the not-found error and
\* downloadMessageMedia was never called.
C17_GlobalScanFallback ==
  LET Has(call, stage, results) ==
        \E n \in 1..Len(dlLog) : /\ dlLog[n].call = call
                                 /\ dlLog[n].stage = stage
                                 /\ dlLog[n].result \in results
      scans == SelectSeq(dlLog, LAMBDA e : e.call = "fetchMessages" /\ e.stage = "global")
      anyFound == \E n \in 1..Len(dlLog) : dlLog[n].result = "found"
      targetedFailed ==
        \/ Has("getChatById", "targeted", {"throw"})
        \/ Has("fetchMessages", "targeted", {"throw"})
        \/ /\ Has("fetchMessages", "targeted", {"miss"})
           /\ ~Has("fetchMessages", "targeted", {"found"}) IN
  (dlPc \in {"returned", "thrown"} /\ dlReq.hasClient) =>
    /\ (/\ Has("getMessageById", "direct", {"null", "throw"})
        /\ ChatIdOf(dlReq.messageId) = "" \/ targetedFailed)
       => Has("getChats", "global", {"ok", "throw"})
    /\ \A n \in 1..Len(scans) :
         /\ scans[n].chat = Chats[n]
         /\ scans[n].limit = 50
         /\ n < Len(scans) => scans[n].result # "found"
    /\ (Has("getChats", "global", {"ok"}) /\ ~Has("fetchMessages", "global", {"found"}))
         => Len(scans) = Len(Chats)
    /\ ~anyFound =>
         /\ dlPc = "thrown"
         /\ dlOut.error = Rewrapped(NotFoundError)
         /\ \A n \in 1..Len(dlLog) : dlLog[n].call # "downloadMessageMedia"

(***************************************************************************)
(* More properties of the session registry.                                *)
(***************************************************************************)
\* C18: an initSession call for an unregistered key under the capacity
\* registers the client with status initializing and has returned by the end
\* of the step that made the call, initialize() still pending; no later
\* completion of initialize() ends a call of initSession.
C18_ReturnsImmediately ==
  /\ [][(/\ lastCall'.op = "initSession"
         /\ lastCall'.stage = "call"
         /\ ~MapHas(clients, keyOf(lastCall'.accountId, lastCall'.label))
         /\ Cardinality(DOMAIN clients) < MaxSessions)
        => (/\ MapHas(clients', keyOf(lastCall'.accountId, lastCall'.label))
            /\ clients'[keyOf(lastCall'.accountId, lastCall'.label)].init = "pending"
            /\ states'[keyOf(lastCall'.accountId, lastCall'.label)] = "initializing"
            /\ lastCall'.outcome = "return")]_vars
  /\ [](lastCall.op = "initSession" => lastCall.stage = "call")

\* C19: when a destroySession call has ended and the credential directory
\* is still there (its removal failed), or the client's destroy() threw, the
\* call has returned destroyed = TRUE and the key is in none of clients,
\* states, qrs and selfIds.
C19_RemovedDespiteErrors ==
  (/\ lastCall.op = "destroySession"
   /\ lastCall.outcome # "awaiting"
   /\ DirNameOf(lastCall.accountId, lastCall.label) \in dirs)
  => LET key == keyOf(lastCall.accountId, lastCall.label) IN
     /\ lastCall = DestroyReturn(lastCall.accountId, lastCall.label)
     /\ ~MapHas(clients, key)
     /\ ~MapHas(states, key)
     /\ ~MapHas(qrs, key)
     /\ ~MapHas(selfIds, key)

\* C20: a pair whose destroySession has completed, with no initSession of it
\* since, has no entry in clients (it does not count toward the bound); and
\* an initSession of it, made while clients holds fewer than MaxSessions
\* entries, registers a new client with status initializing and does not
\* answer that the session exists.
C20_KeyFreeAfterDestroy ==
  /\ [](\A p \in destroyed : ~MapHas(clients, keyOf(p.accountId, p.label)))
  /\ [][(/\ lastCall'.op = "initSession"
         /\ lastCall'.stage = "call"
         /\ [accountId |-> lastCall'.accountId, label |-> lastCall'.label] \in destroyed
         /\ Cardinality(DOMAIN clients) < MaxSessions)
        => LET key == keyOf(lastCall'.accountId, lastCall'.label) IN
           /\ MapHas(clients', key)
           /\ clients'[key] = NewClient(lastCall'.accountId, lastCall'.label)
           /\ states'[key] = "initializing"
           /\ Cardinality(DOMAIN clients') = Cardinality(DOMAIN clients) + 1
           /\ lastCall'.outcome = "awaiting"]_vars

\* C20 witness: the registry was full, a session was destroyed, and the
\* initSession of its pair has registered a new client: the registry is full
\* again.
C20_ReusedAtTheBound ==
  /\ lastCall.op = "initSession"
  /\ lastCall.stage = "call"
  /\ lastCall.outcome = "awaiting"
  /\ lastCall.reuse
  /\ Cardinality(DOMAIN clients) = MaxSessions
  /\ states[keyOf(lastCall.accountId, lastCall.label)] = "initializing"

(***************************************************************************)
(* detectSessions on the directories of sessions whose identifiers hold    *)
(* the separator "__", next to directories that are not of sessions.       *)
(***************************************************************************)
\* what callers pass as accountId and label: 'a1' and 'l1', and 'l1__x' or
\* 'a1__l1', which LocalAuth accepts in a clientId as well
DetectPairs ==
  {[accountId |-> <<"a1">>, label |-> <<"l1">>],
   [accountId |-> <<"a1">>, label |-> <<"l1", "__", "x">>],
   [accountId |-> <<"a1", "__", "l1">>, label |-> <<"x">>]}
\* the directories under dataPath that no session made
ForeignDirs == {<<"other">>, <<"session-">>, <<"session-", "old">>}

InitDetect ==
  /\ clients = EmptyMap
  /\ states = EmptyMap
  /\ qrs = EmptyMap
  /\ selfIds = EmptyMap
  /\ stale = EmptyBag
  /\ dirs \in SUBSET ForeignDirs
  /\ listeners = <<>>
  /\ connected = {}
  /\ nSockets = 0
  /\ emitted = <<>>
  /\ lastCall = [op |-> "constructor"]
  /\ nEvents = 0
  /\ nDestroys = 0
  /\ destroyed = {}
  /\ broken = {}
  /\ WsIdle
  /\ TenantIdle
  /\ RangeIdle /\ DlIdle /\ MediaIdle /\ RestoreIdle

NextDetect ==
  \/ \E p \in DetectPairs : /\ InitSession(p.accountId, p.label)
                            /\ NumClients' <= DetectClients
                            /\ UNCHANGED restoreVars
  \/ \E ref \in ClientRefs : InitializeResolved(ref) /\ UNCHANGED restoreVars
  \/ \E ref \in ClientRefs, browserUp \in BOOLEAN :
       InitializeRejected(ref, browserUp) /\ UNCHANGED restoreVars
  \/ nEvents < DetectEvents /\ \E ref \in ClientRefs, e \in QuietEvents :
       ClientEvent(ref, e) /\ UNCHANGED restoreVars
  \/ nDestroys < DetectDestroys /\ \E p \in DetectPairs, rmOk \in BOOLEAN :
       DestroySessionAbsent(p.accountId, p.label, rmOk) /\ UNCHANGED restoreVars
  \/ nDestroys < DetectDestroys /\ \E p \in DetectPairs :
       DestroySessionBegin(p.accountId, p.label) /\ UNCHANGED restoreVars
  \/ \E ref \in ClientRefs, destroyOk \in BOOLEAN, rmOk \in BOOLEAN :
       DestroySessionFinish(ref, destroyOk, rmOk) /\ UNCHANGED restoreVars

SpecDetect == InitDetect /\ [][NextDetect]_vars

\* C21: for every registered session (t, l) whose directory
\* session-<t>__<l> exists, detectSessions() has an entry for that directory
\* with accountId t, label l and active = TRUE; an entry whose key is not in
\* clients has active = FALSE; a directory that is not named session-...
\* has no entry.
C21_DetectsItsSessions ==
  /\ \A k \in DOMAIN clients :
       DirNameOf(clients[k].accountId, clients[k].label) \in dirs
       => \E e \in detectSessions :
            /\ e.directory = DirNameOf(clients[k].accountId, clients[k].label)
            /\ e.accountId = clients[k].accountId
            /\ e.label = clients[k].label
            /\ e.active
  /\ \A e \in detectSessions :
       /\ ~MapHas(clients, keyOf(e.accountId, e.label)) => ~e.active
       /\ Head(e.directory) = "session-"
  /\ \A d \in dirs : Head(d) # "session-" => \A e \in detectSessions : e.directory # d

(***************************************************************************)
(* The media route when the downloads of one message differ: the caption   *)
(* that downloadMessageMedia returns as filename was edited in between.    *)
(***************************************************************************)
NextStore ==
  \/ nMediaReqs < StoreReqs
       /\ \E k \in MediaIds, permitted \in BOOLEAN, range \in MediaRanges, readable \in BOOLEAN :
            MediaRequest(k, permitted, range, readable) /\ UNCHANGED tenantVars
  \/ \E id \in DOMAIN mediaPending, result \in {"media", "edited", "throw"},
        saveOk \in BOOLEAN, readable \in BOOLEAN :
       MediaDownloaded(id, result, saveOk, readable) /\ UNCHANGED tenantVars
  \/ nTicks < MaxTicks /\ \E d \in Ticks : Tick(d) /\ UNCHANGED tenantVars

SpecStore == InitMedia /\ [][NextStore]_vars

\* C22: an entry of the disk tier never changes: in every step, each message
\* id that has an entry keeps it, bytes, type and name.
C22_FirstWriterWins ==
  [][\A k \in DOMAIN disk : MapHas(disk', k) /\ disk'[k] = disk[k]]_vars

(***************************************************************************)
(* The media route of unnamed/part_004, which keeps its two tiers inline.  *)
(* It differs from routes/chatRoutes.js in two places: it asks for no      *)
(* permission, and its loadFromDisk looks for the file <messageId> before  *)
(* it reads <messageId>.json and <messageId>.bin.                          *)
(***************************************************************************)
\* the files saveToDisk has left in .media_cache
MediaFiles(d) == UNION {{k \o <<".bin">>, k \o <<".json">>} : k \in DOMAIN d}
\* existsSync(path) in .media_cache
existsSync(d, path) == path \in MediaFiles(d)
\* loadFromDisk(messageId) returns an entry only if existsSync(base), base
\* being the path without extension, and the two reads succeed
loadFromDiskReads(d, messageId, readable) == existsSync(d, messageId) /\ readable

NextInline ==
  \/ nMediaReqs < MaxMediaReqs
       /\ \E k \in MediaIds, range \in MediaRanges, readable \in BOOLEAN :
            MediaRequest(k, TRUE, range, loadFromDiskReads(disk, k, readable)) /\ UNCHANGED tenantVars
  \/ \E id \in DOMAIN mediaPending, result \in {"media", "throw"},
        saveOk \in BOOLEAN, readable \in BOOLEAN :
       MediaDownloaded(id, result, saveOk,
                       loadFromDiskReads(disk, mediaPending[id].messageId, readable))
       /\ UNCHANGED tenantVars
  \/ nTicks < MaxTicks /\ \E d \in Ticks : Tick(d) /\ UNCHANGED tenantVars

SpecInline == InitMedia /\ [][NextInline]_vars

\* C23: an entry of the disk tier is never removed, and a request for a
\* message id that has one is answered in the step of the request, from the
\* memory or from the disk, without a call of chatManager.downloadMedia.
C23_DiskEntryServes ==
  /\ [][\A k \in DOMAIN disk : MapHas(disk', k)]_vars
  /\ [][\A k \in MediaIds :
          (/\ MapHas(disk, k)
           /\ nMediaReqs' = nMediaReqs + 1
           /\ mediaLast'.messageId = k
           /\ mediaLast'.permitted)
          => (/\ mediaLast'.res.ended
              /\ mediaLast'.tier \in {"memory", "disk"}
              /\ nDownloads' = nDownloads
              /\ mediaPending' = mediaPending)]_vars

(***************************************************************************)
(* The HTTP routes of routes/sessionRoutes.js and routes/chatRoutes.js     *)
(* that take fields from the body, the query or an upload.  A request is   *)
(* one step up to its first await of the registry or of the client;        *)
(* lastCall holds the request, the calls the handler made outside the      *)
(* route, in order, and the response.                                      *)
(***************************************************************************)
MinVoiceBytes == 3000      \* chatRoutes.js:93

SessionRoutes == {"sessions/init", "sessions/destroy", "sessions/status"}
\* no upload, one below the least size of a voice note, one of that size
NoFile == [present |-> FALSE, size |-> 0]
Uploads == {NoFile, [present |-> TRUE, size |-> MinVoiceBytes - 1],
            [present |-> TRUE, size |-> MinVoiceBytes]}
\* accountId and label of the body or the query (absent or ''), content of
\* the body, req.file
RouteRequests ==
  [accountId : {<<>>, <<"a1">>}, label : {<<>>, <<"l1">>},
   content : {<<>>, <<"hi">>}, file : Uploads]
\* the session routes read accountId and label only, the chat routes content
\* and the upload only
SessionRequests == {r \in RouteRequests : r.content = <<>> /\ r.file = NoFile}
SendRequests == {r \in RouteRequests : r.accountId = <<>> /\ r.label = <<>>}

\* a test that lets a request without accountId pass
MissingFieldsLabelOnly(route, req) ==
  CASE route \in SessionRoutes -> req.label = <<>>
    [] route = "messages" -> req.content = <<>>
    [] route = "media" -> ~req.file.present
    [] route = "voice" -> ~req.file.present \/ req.file.size < MinVoiceBytes

\* the tests before the try of each route
MissingFields(route, req) ==
  CASE route \in SessionRoutes -> req.accountId = <<>> \/ req.label = <<>>
    [] route = "messages" -> req.content = <<>>
    [] route = "media" -> ~req.file.present
    [] route = "voice" -> ~req.file.present \/ req.file.size < MinVoiceBytes

ValidationMessage(route, req) ==
  CASE route \in SessionRoutes -> "accountId and label are required"
    [] route = "messages" -> "Message content is required"
    [] route = "media" -> "Media file is required"
    [] route = "voice" -> IF ~req.file.present THEN "Audio file is required"
                          ELSE "Voice note too short"

\* res.json(value)
JsonOk(value) ==
  [status |-> 200, headers |-> EmptyMap, body |-> <<>>, ended |-> TRUE, json |-> value]

\* a handler that never reaches the registry's writes: its response
RouteAnswer(route, req, calls, res) ==
  /\ lastCall' = [op |-> "route", route |-> route, req |-> req, calls |-> calls, res |-> res]
  /\ emitted' = <<>>
  /\ UNCHANGED <<clients, states, qrs, selfIds, stale, dirs, nEvents, nDestroys, destroyed>>
  /\ UNCHANGED <<listeners, connected, nSockets, pureVars>>

\* POST /sessions/init
RouteSessionsInit(req, authorized) ==
  IF MissingFields("sessions/init", req)
  THEN RouteAnswer("sessions/init", req, <<>>,
                   JsonError(400, ValidationMessage("sessions/init", req)))
  ELSE IF ~authorized
  THEN RouteAnswer("sessions/init", req, <<"assertAccountAdmin">>,
                   JsonError(403, "Admin or Owner role required"))
  ELSE InitSession(req.accountId, req.label)

\* POST /sessions/destroy
RouteSessionsDestroy(req, authorized, rmOk) ==
  IF MissingFields("sessions/destroy", req)
  THEN RouteAnswer("sessions/destroy", req, <<>>,
                   JsonError(400, ValidationMessage("sessions/destroy", req)))
  ELSE IF ~authorized
  THEN RouteAnswer("sessions/destroy", req, <<"assertAccountAdmin">>,
                   JsonError(403, "Admin or Owner role required"))
  ELSE \/ DestroySessionAbsent(req.accountId, req.label, rmOk)
       \/ DestroySessionBegin(req.accountId, req.label)

\* GET /sessions/status
RouteSessionsStatus(req, member) ==
  IF MissingFields("sessions/status", req)
  THEN RouteAnswer("sessions/status", req, <<>>,
                   JsonError(400, ValidationMessage("sessions/status", req)))
  ELSE IF ~member
  THEN RouteAnswer("sessions/status", req, <<"assertAccountActiveAndMember">>,
                   JsonError(403, "User is not a member of this account"))
  ELSE RouteAnswer("sessions/status", req,
                   <<"assertAccountActiveAndMember", "getSessionStatus">>,
                   JsonOk(getSessionStatus(req.accountId, req.label)))

\* the calls of chatManager.sendMessage, sendMedia and sendVoiceNote on the
\* client of the session
SendCalls(route) ==
  CASE route = "messages" -> <<"client.getChatById", "chat.sendMessage">>
    [] route = "media" -> <<"client.getChatById", "chat.sendMessage">>
    [] route = "voice" -> <<"MediaConverter.convertAudioToWhatsAppFormat",
                            "client.getChatById", "chat.sendMessage">>

\* POST /sessions/:accountId/:label/chats/:chatId/messages, .../media and
\* .../voice: accountId and label are of the path
RouteSend(route, p, req, permitted, sendOk) ==
  IF MissingFields(route, req)
  THEN RouteAnswer(route, req, <<>>, JsonError(400, ValidationMessage(route, req)))
  ELSE IF ~permitted
  THEN RouteAnswer(route, req, <<"assertSessionPermission">>,
                   JsonError(403, "Missing permission: createMessages"))
  ELSE IF ~MapHas(clients, keyOf(p.accountId, p.label))
  THEN RouteAnswer(route, req, <<"assertSessionPermission">>,
                   JsonError(500, "Session not found"))
  ELSE RouteAnswer(route, req, <<"assertSessionPermission">> \o SendCalls(route),
                   IF sendOk THEN JsonOk([fromMe |-> TRUE])
                   ELSE JsonError(500, "Failed to send"))

NextRoutes ==
  \/ \E req \in SessionRequests, authorized \in BOOLEAN :
       /\ RouteSessionsInit(req, authorized)
       /\ NumClients' <= RouteClients
       /\ UNCHANGED restoreVars
  \/ \E req \in SessionRequests, authorized \in BOOLEAN, rmOk \in BOOLEAN :
       /\ nDestroys < RouteDestroys
       /\ RouteSessionsDestroy(req, authorized, rmOk)
       /\ UNCHANGED restoreVars
  \/ \E req \in SessionRequests, member \in BOOLEAN :
       RouteSessionsStatus(req, member) /\ UNCHANGED restoreVars
  \/ \E route \in {"messages", "media", "voice"}, p \in OnePair, req \in SendRequests,
        permitted \in BOOLEAN, sendOk \in BOOLEAN :
       RouteSend(route, p, req, permitted, sendOk) /\ UNCHANGED restoreVars
  \/ \E ref \in ClientRefs : InitializeResolved(ref) /\ UNCHANGED restoreVars
  \/ \E ref \in ClientRefs, browserUp \in BOOLEAN :
       InitializeRejected(ref, browserUp) /\ UNCHANGED restoreVars
  \/ nEvents < RouteEvents /\ \E ref \in ClientRefs, e \in QuietEvents :
       ClientEvent(ref, e) /\ UNCHANGED restoreVars
  \/ \E ref \in ClientRefs, destroyOk \in BOOLEAN, rmOk \in BOOLEAN :
       DestroySessionFinish(ref, destroyOk, rmOk) /\ UNCHANGED restoreVars

SpecRoutes == Init /\ [][NextRoutes]_vars

\* C24: a request that lacks accountId or label (sessions/init,
\* sessions/destroy, sessions/status), content (messages), the upload (media,
\* voice) or 3000 bytes of upload (voice) is answered 400 in its step, having
\* called nothing outside the route, with the four maps, the client objects
\* and the directories as they were and no event emitted; and no call of
\* initSession or destroySession is ever made with an empty accountId or label.
C24_RejectedBeforeAnyEffect ==
  /\ [][(/\ lastCall'.op = "route"
         /\ \/ /\ lastCall'.route \in {"sessions/init", "sessions/destroy", "sessions/status"}
               /\ (lastCall'.req.accountId = <<>> \/ lastCall'.req.label = <<>>)
            \/ lastCall'.route = "messages" /\ lastCall'.req.content = <<>>
            \/ lastCall'.route \in {"media", "voice"} /\ ~lastCall'.req.file.present
            \/ lastCall'.route = "voice" /\ lastCall'.req.file.size < 3000)
        => (/\ lastCall'.res.status = 400
            /\ lastCall'.res.ended
            /\ lastCall'.calls = <<>>
            /\ emitted' = <<>>
            /\ UNCHANGED <<clients, states, qrs, selfIds, stale, dirs, listeners>>)]_vars
  /\ [](lastCall.op \in {"initSession", "destroySession"}
        => lastCall.accountId # <<>> /\ lastCall.label # <<>>)

\* C24 witness: with a session registered and initializing, a voice note of
\* 2999 bytes has been refused with 400, and the session is as it was.
C24_ShortVoiceRefused ==
  /\ lastCall.op = "route"
  /\ lastCall.route = "voice"
  /\ lastCall.req.file = [present |-> TRUE, size |-> 2999]
  /\ lastCall.res.status = 400
  /\ lastCall.calls = <<>>
  /\ MapHas(clients, <<"a1", "::", "l1">>)
  /\ states[<<"a1", "::", "l1">>] = "initializing"

(***************************************************************************)
(* src/server.js under concurrent createSession calls.                     *)
(***************************************************************************)
NextWs ==
  \/ \E id \in WsIds : NumCreating < WsMaxCreating /\ CreateSessionBegin(id)
  \/ \E id \in WsIds : CreateSessionInitialized(id)
  \/ \E id \in WsIds : CreateSessionRejected(id)
  \/ \E id \in WsIds : WsDestroySession(id)

SpecWs == Init /\ [][NextWs]_vars

\* C25: the sessions object of src/server.js never holds more than
\* MAX_SESSIONS sessions.
C25_WsCapacityBound == Cardinality(sessions) <= MAX_SESSIONS

\* C26: the calls of one downloadMedia that look the message up come in the
\* order direct, targeted, global, and once a call of a stage has returned the
\* message no call of a later stage is made.
C26_ShortCircuit ==
  LET Rank(stage) == CASE stage = "direct" -> 1 [] stage = "targeted" -> 2 [] OTHER -> 3
      IsLookup(e) == e.call \in {"getMessageById", "getChatById", "fetchMessages", "getChats"}
  IN \A m \in 1..Len(dlLog) : \A n \in 1..Len(dlLog) :
       (m < n /\ IsLookup(dlLog[m]) /\ IsLookup(dlLog[n])) =>
         /\ Rank(dlLog[m].stage) <= Rank(dlLog[n].stage)
         /\ dlLog[m].result = "found" => Rank(dlLog[n].stage) = Rank(dlLog[m].stage)

\* C27: downloadMessageMedia waits only after an attempt that failed, never
\* on the way to its first attempt, and the wait after failed attempt n is
\* 400, 800, 1600, 3200 ms for n = 1..4 plus a jitter of 0 to 149 ms.
C27_BackoffDoubles ==
  /\ [][dlAt'.waits # dlAt.waits =>
          /\ dlPc = "attempt"
          /\ dlAt'.waits = dlAt.waits + 1
          /\ Len(dlLog') > Len(dlLog)
          /\ dlLog'[Len(dlLog) + 1].call = "downloadMedia"
          /\ dlAt.attempt = 1 => dlAt'.wait \in 400..549
          /\ dlAt.attempt = 2 => dlAt'.wait \in 800..949
          /\ dlAt.attempt = 3 => dlAt'.wait \in 1600..1749
          /\ dlAt.attempt = 4 => dlAt'.wait \in 3200..3349]_vars
  /\ [][(dlPc # "attempt" /\ dlPc' = "attempt") =>
          /\ dlAt'.attempt = 1
          /\ dlAt'.waits = dlAt.waits]_vars

\* C27 witness: four attempts have failed, the wait after the fourth was
\* 3200 ms and the greatest jitter, and the fifth attempt is next.
C27_FourthWait ==
  /\ dlPc = "attempt"
  /\ dlAt.attempt = 5
  /\ dlAt.waits = 4
  /\ dlAt.wait = 3349

\* C28: the memGet of a permitted request for k is a hit exactly when the
\* memory holds an entry for k whose age, Date.now() minus its ts, is less
\* than 600000 ms; an entry whose age is 600000 ms or more is not served and
\* is gone from the memory after the read (the step may have set a new one).
C28_HitBelowTtl ==
  [][\A k \in MediaIds :
       (/\ nMediaReqs' = nMediaReqs + 1
        /\ mediaLast'.messageId = k
        /\ mediaLast'.permitted)
       => /\ mediaLast'.tier = "memory"
               <=> (MapHas(memCache, k) /\ now - memCache[k].ts < 600000)
          /\ (MapHas(memCache, k) /\ now - memCache[k].ts >= 600000)
               => (~MapHas(memCache', k) \/ memCache'[k].ts = now)]_vars

\* C28 as the code has it: the memGet of a permitted request for k is a hit
\* exactly when the memory holds an entry for k whose age is at most
\* 600000 ms; an entry whose age is more than 600000 ms is not served and is
\* gone from the memory after the read (the step may have set a new one).
C28_HitUpToTtl ==
  [][\A k \in MediaIds :
       (/\ nMediaReqs' = nMediaReqs + 1
        /\ mediaLast'.messageId = k
        /\ mediaLast'.permitted)
       => /\ mediaLast'.tier = "memory"
               <=> (MapHas(memCache, k) /\ now - memCache[k].ts <= 600000)
          /\ (MapHas(memCache, k) /\ now - memCache[k].ts > 600000)
               => (~MapHas(memCache', k) \/ memCache'[k].ts = now)]_vars

\* C28 witness: a request was served from the memory when the age of the
\* entry was the TTL to the millisecond.
C28_HitAtTtl ==
  /\ mediaLast.tier = "memory"
  /\ mediaLast.res.status \in {200, 206}
  /\ MapHas(memCache, mediaLast.messageId)
  /\ mediaLast.at - memCache[mediaLast.messageId].ts = 600000

\* C29: of every registry event of the last step, each connected socket is
\* sent at most one copy on the event's name and at most one on each scoped
\* channel, whatever sockets connected or disconnected before.
C29_AtMostOnce ==
  \A i \in 1..Len(emitted) : \A s \in connected :
    LET out == Fanout(listeners, emitted[i])
        To(ch) == {j \in 1..Len(out) : out[j].socket = s /\ out[j].channel = ch}
    IN \A j \in 1..Len(out) : out[j].socket = s => Cardinality(To(out[j].channel)) = 1

\* C29 witness: the first socket has disconnected, the second is connected,
\* and a qr of the session was sent to the second, once on qr and once on
\* qr:a1:l1.
C29_SentOnceAfterDisconnect ==
  /\ listeners = <<1, 2>>
  /\ connected = {2}
  /\ Len(emitted) >= 1
  /\ emitted[1].name = "qr"
  /\ Cardinality({j \in 1..Len(Sent) : Sent[j].socket = 2 /\ Sent[j].channel = <<"qr">>}) = 1
  /\ Cardinality({j \in 1..Len(Sent) :
                    /\ Sent[j].socket = 2
                    /\ Sent[j].channel = <<"qr", ":", "a1", ":", "l1">>}) = 1

\* C30: the listeners registered on the SessionManager are those of the
\* connected sockets, one set for each: no listener of a socket that has
\* disconnected remains.
C30_ListenersOfConnected ==
  /\ Len(listeners) = Cardinality(connected)
  /\ \A i \in 1..Len(listeners) : listeners[i] \in connected

(***************************************************************************)
(* Properties of the status projection of the registry.                    *)
(***************************************************************************)
\* C31: every step that gives a key a status it did not have emits a status
\* event of the key's pair with that status, and every status event emitted
\* has a hasQr field.
C31_StatusPublished ==
  /\ [][\A k \in DOMAIN states' :
          (~MapHas(states, k) \/ states[k] # states'[k])
          => \E i \in 1..Len(emitted') :
               /\ emitted'[i].name = "status"
               /\ keyOf(emitted'[i].data.accountId, emitted'[i].data.label) = k
               /\ emitted'[i].data.status = states'[k]]_vars
  /\ [](\A i \in 1..Len(emitted) :
          emitted[i].name = "status" => "hasQr" \in DOMAIN emitted[i].data)

\* C32: getSessionStatus and getAllSessions give a waId other than null only
\* for a session whose status is ready.
C32_WaIdOnlyWhenReady ==
  /\ \A p \in FewPairs :
       getSessionStatus(p.accountId, p.label).waId # "null"
       => getSessionStatus(p.accountId, p.label).status = "ready"
  /\ \A s \in getAllSessions : s.waId # "null" => s.status = "ready"

\* C33: no client event removes a key from clients; and for a registered key
\* whose status is disconnected or auth_failure, an initSession of its pair
\* returns exists = TRUE and registers nothing, a qr event of its client sets
\* the status to scanning and a ready event sets it to ready.
C33_NonTerminal ==
  /\ [][lastCall'.op = "clientEvent" => DOMAIN clients' = DOMAIN clients]_vars
  /\ [][\A k \in DOMAIN clients :
          (MapGet(states, k) \in {"disconnected", "auth_failure"})
          => /\ (/\ lastCall'.op = "initSession"
                 /\ lastCall'.stage = "call"
                 /\ keyOf(lastCall'.accountId, lastCall'.label) = k)
                => (/\ lastCall'.outcome = "return"
                    /\ lastCall'.ret.exists
                    /\ lastCall'.ret.status = states[k]
                    /\ clients' = clients)
             /\ (/\ lastCall'.op = "clientEvent"
                 /\ lastCall'.registered
                 /\ keyOf(lastCall'.accountId, lastCall'.label) = k)
                => (/\ lastCall'.event = "qr" => states'[k] = "scanning"
                    /\ lastCall'.event = "ready" => states'[k] = "ready")]_vars

\* C33 witness: the registered client of a session whose status was
\* disconnected has emitted a qr, and the status is scanning.
C33_ScanningAfterDisconnected ==
  /\ lastCall.op = "clientEvent"
  /\ lastCall.registered
  /\ lastCall.event = "qr"
  /\ lastCall.was = "disconnected"
  /\ MapHas(clients, keyOf(lastCall.accountId, lastCall.label))
  /\ states[keyOf(lastCall.accountId, lastCall.label)] = "scanning"

\* C34: the keys of states, of qrs and of selfIds are keys of clients.
C34_KeysOfClients ==
  /\ DOMAIN states \subseteq DOMAIN clients
  /\ DOMAIN qrs \subseteq DOMAIN clients
  /\ DOMAIN selfIds \subseteq DOMAIN clients

\* C35: every Client object that is not registered in clients has had
\* destroy() invoked on it or has had its own initialize() rejected.
C35_NoOrphan ==
  \A o \in BagToSet(stale) : o.destroyCalled \/ o.init = "rejected"

\* C36: getSessionStatus and getAllSessions give hasQr = TRUE only for a
\* session whose status is scanning.
C36_HasQrOnlyWhenScanning ==
  /\ \A p \in FewPairs :
       getSessionStatus(p.accountId, p.label).hasQr
       => getSessionStatus(p.accountId, p.label).status = "scanning"
  /\ \A s \in getAllSessions : s.hasQr => s.status = "scanning"

(***************************************************************************)
(* The media route called under two sessions: the cache is keyed by the    *)
(* message id alone.                                                       *)
(***************************************************************************)
TenantPairs == {PairAt(1), PairAt(NumLabels + 1)}

NextTenant ==
  \/ \E p \in TenantPairs : /\ InitSession(p.accountId, p.label)
                             /\ NumClients' <= TenantClients
                             /\ UNCHANGED restoreVars
  \/ \E ref \in ClientRefs : InitializeResolved(ref) /\ UNCHANGED restoreVars
  \/ nDestroys < TenantDestroys /\ \E p \in TenantPairs :
       DestroySessionBegin(p.accountId, p.label) /\ UNCHANGED restoreVars
  \/ \E ref \in ClientRefs : DestroySessionFinish(ref, TRUE, TRUE) /\ UNCHANGED restoreVars
  \/ nMediaReqs < TenantReqs
       /\ \E p \in TenantPairs, k \in MediaIds, permitted \in BOOLEAN :
            TenantMediaRequest(p, k, permitted)
  \/ \E id \in DOMAIN mediaPending, result \in {"media", "throw"} :
       TenantMediaDownloaded(id, result)

SpecTenant == Init /\ [][NextTenant]_vars

\* C37: what the route serves for a request under (accountId, label) was
\* downloaded by a request under the same pair, and a request served from
\* the cache is one whose pair had a registered session when it arrived.
C37_ServedFromOwnSession ==
  mediaLast.tier \in {"memory", "disk", "download", "fallback"}
  => LET by == reqBy[mediaLast.id] IN
     /\ origin[mediaLast.messageId] = [accountId |-> by.accountId, label |-> by.label]
     /\ mediaLast.tier # "download" => by.registered

\* C38: when autoRestoreAllSessions has returned, every entry reported as
\* restored is one whose initSession created a client (it did not answer
\* that the session exists), and restored is the number of those entries.
C38_RestoredAreCreated ==
  rsPc = "returned" =>
    /\ \A i \in 1..Len(rsDetected) :
         rsReturn.results[i].status = "restored"
         => (rsLog[i].called /\ rsLog[i].outcome = "return" /\ ~rsLog[i].exists)
    /\ rsReturn.restored =
         Cardinality({i \in 1..Len(rsDetected) :
                        rsLog[i].called /\ rsLog[i].outcome = "return" /\ ~rsLog[i].exists})

\* C39: the step of the fifth download attempt of a retry loop makes no
\* backoff wait, however the attempt ends: a loop waits at most four times.
C39_NoWaitAfterLast ==
  [][(dlPc = "attempt" /\ dlAt.attempt = MaxAttempts) => dlAt'.waits = dlAt.waits]_vars

\* C40: for a header bytes=-<end> (the start omitted, the end given or not)
\* and a buffer that is not empty, the answer is 206 with the bytes
\* buffer[0..e], e = min(end, length - 1) or length - 1 when the end is
\* omitted too, and Content-Range "bytes 0-e/length": the first bytes of the
\* buffer, not its last <end> bytes.
C40_OmittedStartIsZero ==
  LET v == rangeReq.range.value
      buffer == rangeReq.buffer
      b == SubSeq(v, 3, Len(v))
      omitted == /\ rangeReq.range.present
                 /\ Len(v) >= 2
                 /\ v[1] = "bytes="
                 /\ v[2] = "-"
                 /\ \A i \in 1..Len(b) : IsDigit(b[i])
  IN (rangeRes.ended /\ omitted /\ buffer # <<>>)
     => LET e == IF b = <<>> THEN Len(buffer) - 1 ELSE Min(ParseInt(b), Len(buffer) - 1) IN
        /\ rangeRes.status = 206
        /\ rangeRes.body = [i \in 1..(e + 1) |-> buffer[i]]
        /\ rangeRes.headers["Content-Range"] =
             <<"bytes ", "0", "-">> \o StringOf(e) \o <<"/">> \o StringOf(Len(buffer))
        /\ rangeRes.headers["Content-Length"] = StringOf(e + 1)

\* C40 witness: bytes=-4 on a buffer of 15 bytes was answered with its first
\* five bytes.
C40_FirstFiveBytes ==
  /\ rangeRes.ended
  /\ rangeReq.range = Header(<<"bytes=", "-", "4">>)
  /\ Len(rangeReq.buffer) = 15
  /\ rangeRes.status = 206
  /\ rangeRes.body = <<1, 2, 3, 4, 5>>
  /\ rangeRes.headers["Content-Range"] = <<"bytes ", "0", "-", "4", "/", "1", "5">>

====
